---------------------------- MODULE Spec2Model ----------------------------
(***************************************************************************)
(* A model of rprompt's schema-inference core: the Set Merger              *)
(* (utils.MergeAsSet), the variable-path extractor (ExtractVarsFromPipe),  *)
(* the schema walker (Template.walk) and the dependency resolver           *)
(* (Template.LoadDependencies), as found in src/utils/map.go and           *)
(* src/prompt/template.go.                                                 *)
(*                                                                         *)
(* A Go value of type `any` held in a map[string]any is either a scalar    *)
(* (the schema's leaf marker is the empty string "") or a nested           *)
(* map[string]any.  Every map the program merges is keyed by strings, so   *)
(* the key-type test of tryMergeNestedMaps (map.go:62) always passes and   *)
(* is not modelled.                                                        *)
(***************************************************************************)
EXTENDS Integers, Sequences, FiniteSets, TLC

VARIABLES
    \* ---- one call of utils.MergeAsSet --------------------------------
    mpc,        \* position of the call: "call" before it, "ret" after it
    this,       \* the first argument, as a value  ([nil, m])
    other,      \* the second argument, as a value ([nil, m])
    result,     \* what the call returned ([err, nil, m])
    heap,       \* the Go heap: a sequence of map objects, addressed 1..Len
    thisAddr,   \* address of `this` on the heap (0: the nil map)
    otherAddr,  \* address of `other` on the heap (0: the nil map)
    resAddr,    \* address of the returned map (0: nil)
    \* ---- one call of ExtractVarsFromPipe ------------------------------
    xpc,        \* position of the call: "call" before it, "ret" after it
    xpipe,      \* the pipe passed
    xfrag,      \* the fragment returned
    \* ---- a Template and the registry it loads from --------------------
    registry,   \* path -> content of the template stored there
    template,   \* the root Template object
    loaded,     \* the last LoadDependencies call on template and how it ended
    generated,  \* the last GenerateConfig call on template and what it returned
    alive,      \* FALSE once a call has killed the goroutine
    validated,  \* the last Template.Parse call: the config supplied, the outcome
    \* ---- a PromptSystem over the registry ------------------------------
    store,      \* the configuration stored at configPath ([exists, cfg])
    calls,      \* the steps the last PromptSystem call took, in order
    outcome,    \* what the last PromptSystem call returned
    \* ---- one invocation of the CLI's generate command ------------------
    cli         \* its position, flags, the PromptSystem calls made, the output file

mergeVars == <<mpc, this, other, result, heap, thisAddr, otherAddr, resAddr>>
extractVars == <<xpc, xpipe, xfrag>>
templateVars == <<registry, template, loaded, generated, alive, validated>>
systemVars == <<store, calls, outcome, cli>>

vars == <<mergeVars, extractVars, templateVars, systemVars>>

----------------------------------------------------------------------------
(* Values.                                                                 *)

\* a scalar held in a map[string]any
LeafVal(v) == [leaf |-> TRUE, v |-> v]
\* a nested map[string]any held in a map[string]any
MapVal(m) == [leaf |-> FALSE, m |-> m]
\* reflect.ValueOf(val).Kind() == reflect.Map
IsMap(val) == ~val.leaf
\* the leaf marker the extractor writes: the empty string
Leaf == LeafVal("")
\* make(map[string]any)
EmptyMap == << >>
\* m[k] = v on a Go map
Put(m, k, v) == [x \in (DOMAIN m) \cup {k} |-> IF x = k THEN v ELSE m[x]]

\* a map argument: the nil map, or an initialized map holding m
NilMap == [nil |-> TRUE, m |-> EmptyMap]
SomeMap(m) == [nil |-> FALSE, m |-> m]

----------------------------------------------------------------------------
(* utils.MergeAsSet on values.                                             *)

RECURSIVE tryMergeNestedMaps(_, _)
\* tryMergeNestedMaps without the recursive call: one level is merged, and a
\* key found in both nested maps keeps the first map's value
tryMergeNestedMaps_oneLevel(val1, val2) ==
    IF IsMap(val1) /\ IsMap(val2)
    THEN [val |-> MapVal([key \in (DOMAIN val1.m) \cup (DOMAIN val2.m) |->
                             IF key \in DOMAIN val1.m THEN val1.m[key] ELSE val2.m[key]]),
          wasMerged |-> TRUE]
    ELSE [val |-> val1, wasMerged |-> FALSE]

\* tryMergeNestedMaps in which a key of both nested maps whose values are
\* not both maps takes the second map's value
tryMergeNestedMaps_secondWins(val1, val2) ==
    IF IsMap(val1) /\ IsMap(val2)
    THEN LET v1 == val1.m
             v2 == val2.m
             resultMap ==
                 [key \in (DOMAIN v1) \cup (DOMAIN v2) |->
                     IF key \in DOMAIN v1
                     THEN IF key \in DOMAIN v2
                          THEN LET r == tryMergeNestedMaps(v1[key], v2[key])
                               IN  IF r.wasMerged THEN r.val ELSE v2[key]
                          ELSE v1[key]
                     ELSE v2[key]]
         IN  [val |-> MapVal(resultMap), wasMerged |-> TRUE]
    ELSE [val |-> val1, wasMerged |-> FALSE]

tryMergeNestedMaps(val1, val2) ==
    IF IsMap(val1) /\ IsMap(val2)
    THEN LET v1 == val1.m
             v2 == val2.m
             resultMap ==
                 [key \in (DOMAIN v1) \cup (DOMAIN v2) |->
                     IF key \in DOMAIN v1
                     THEN IF key \in DOMAIN v2
                          THEN LET r == tryMergeNestedMaps(v1[key], v2[key])
                               IN  IF r.wasMerged THEN r.val ELSE v1[key]
                          ELSE v1[key]
                     ELSE v2[key]]
         IN  [val |-> MapVal(resultMap), wasMerged |-> TRUE]
    ELSE [val |-> val1, wasMerged |-> FALSE]

\* MergeAsSet with `result[k] = v` done for every key of `other`, present or not
MergeAsSet_overwrite(a, b) ==
    IF a.nil \/ b.nil
    THEN [err |-> TRUE, nil |-> TRUE, m |-> EmptyMap]
    ELSE [err |-> FALSE, nil |-> FALSE,
          m |-> [k \in (DOMAIN a.m) \cup (DOMAIN b.m) |->
                    IF k \in DOMAIN b.m THEN b.m[k] ELSE a.m[k]]]

\* MergeAsSet validating only `this`: ranging over a nil `other` adds nothing
MergeAsSet_nilOther(a, b) ==
    IF a.nil
    THEN [err |-> TRUE, nil |-> TRUE, m |-> EmptyMap]
    ELSE [err |-> FALSE, nil |-> FALSE,
          m |-> [k \in (DOMAIN a.m) \cup (DOMAIN b.m) |->
                    IF k \in DOMAIN a.m
                    THEN IF k \in DOMAIN b.m
                         THEN LET r == tryMergeNestedMaps(a.m[k], b.m[k])
                              IN  IF r.wasMerged THEN r.val ELSE a.m[k]
                         ELSE a.m[k]
                    ELSE b.m[k]]]

\* MergeAsSet without its else branch: a key new to the result is not added
MergeAsSet_dropNew(a, b) ==
    IF a.nil \/ b.nil
    THEN [err |-> TRUE, nil |-> TRUE, m |-> EmptyMap]
    ELSE [err |-> FALSE, nil |-> FALSE,
          m |-> [k \in DOMAIN a.m |->
                    IF k \in DOMAIN b.m
                    THEN LET r == tryMergeNestedMaps(a.m[k], b.m[k])
                         IN  IF r.wasMerged THEN r.val ELSE a.m[k]
                    ELSE a.m[k]]]

\* MergeAsSet keeping only the keys that one argument alone holds
MergeAsSet_exclusive(a, b) ==
    IF a.nil \/ b.nil
    THEN [err |-> TRUE, nil |-> TRUE, m |-> EmptyMap]
    ELSE [err |-> FALSE, nil |-> FALSE,
          m |-> [k \in ((DOMAIN a.m) \cup (DOMAIN b.m)) \ ((DOMAIN a.m) \cap (DOMAIN b.m)) |->
                    IF k \in DOMAIN a.m THEN a.m[k] ELSE b.m[k]]]

MergeAsSet(a, b) ==
    IF a.nil \/ b.nil
    THEN [err |-> TRUE, nil |-> TRUE, m |-> EmptyMap]
    ELSE [err |-> FALSE, nil |-> FALSE,
          m |-> [k \in (DOMAIN a.m) \cup (DOMAIN b.m) |->
                    IF k \in DOMAIN a.m
                    THEN IF k \in DOMAIN b.m
                         THEN LET r == tryMergeNestedMaps(a.m[k], b.m[k])
                              IN  IF r.wasMerged THEN r.val ELSE a.m[k]
                         ELSE a.m[k]
                    ELSE b.m[k]]]

----------------------------------------------------------------------------
(* Inputs of the merge: every map of at most MaxEntries entries, nested    *)
(* entries counted, over two keys and two scalars.                         *)

MaxEntries == 3
MergeKeys == {"x", "y"}
Scalars == {"", "v"}

RECURSIVE Entries(_)
RECURSIVE SumEntries(_, _)
SumEntries(m, ks) ==
    IF ks = {} THEN 0
    ELSE LET k == CHOOSE k \in ks : TRUE
         IN  1 + (IF m[k].leaf THEN 0 ELSE Entries(m[k].m)) + SumEntries(m, ks \ {k})
Entries(m) == SumEntries(m, DOMAIN m)

RECURSIVE MapsUpTo(_)
MapsUpTo(n) ==
    IF n = 0 THEN {EmptyMap}
    ELSE LET vals == {LeafVal(s) : s \in Scalars} \cup {MapVal(m) : m \in MapsUpTo(n - 1)}
         IN  {m \in UNION {[S -> vals] : S \in SUBSET MergeKeys} : Entries(m) <= n}

MergeInputs == {NilMap} \cup {SomeMap(m) : m \in MapsUpTo(MaxEntries)}

----------------------------------------------------------------------------
(* utils.MergeAsSet on the heap.  A Go map is a reference: the heap is a   *)
(* sequence of map objects, an entry of an object holds a scalar or the    *)
(* address of another object, and `result[k] = v` copies the entry, never  *)
(* the object it points to.                                                *)

\* an entry holding the address of a nested map
RefVal(a) == [leaf |-> FALSE, ref |-> a]

\* make(map[K]V): a new empty object at the next free address
NewObject(h, obj) == Append(h, obj)

RECURSIVE tryMergeNestedMapsOnHeap(_, _, _)
RECURSIVE mergeNestedEntriesOnHeap(_, _, _, _, _)
\* map.go:75-91, the loop over v2.MapKeys(); rm is resultMap's address
mergeNestedEntriesOnHeap(h, rm, v1, v2, keys) ==
    IF keys = {} THEN h
    ELSE LET key == CHOOSE k \in keys : TRUE
             rest == keys \ {key}
         IN  IF key \in DOMAIN h[v1]
             THEN LET r == tryMergeNestedMapsOnHeap(h, h[v1][key], h[v2][key])
                  IN  IF r.wasMerged
                      THEN mergeNestedEntriesOnHeap(
                               [r.heap EXCEPT ![rm] = Put(@, key, r.val)],
                               rm, v1, v2, rest)
                      ELSE mergeNestedEntriesOnHeap(r.heap, rm, v1, v2, rest)
             ELSE mergeNestedEntriesOnHeap(
                      [h EXCEPT ![rm] = Put(@, key, h[v2][key])], rm, v1, v2, rest)

tryMergeNestedMapsOnHeap(h, val1, val2) ==
    IF IsMap(val1) /\ IsMap(val2)
    THEN LET v1 == val1.ref
             v2 == val2.ref
             \* resultMap := reflect.MakeMap; copy all entries of v1
             h1 == NewObject(h, h[v1])
             rm == Len(h1)
         IN  [heap |-> mergeNestedEntriesOnHeap(h1, rm, v1, v2, DOMAIN h[v2]),
              val |-> RefVal(rm), wasMerged |-> TRUE]
    ELSE [heap |-> h, val |-> val1, wasMerged |-> FALSE]

RECURSIVE mergeEntriesOnHeap(_, _, _, _)
\* map.go:34-47, the loop over `other`; res is result's address
mergeEntriesOnHeap(h, res, b, keys) ==
    IF keys = {} THEN h
    ELSE LET k == CHOOSE x \in keys : TRUE
             rest == keys \ {k}
         IN  IF k \in DOMAIN h[res]
             THEN LET r == tryMergeNestedMapsOnHeap(h, h[res][k], h[b][k])
                  IN  IF r.wasMerged
                      THEN mergeEntriesOnHeap(
                               [r.heap EXCEPT ![res] = Put(@, k, r.val)], res, b, rest)
                      ELSE mergeEntriesOnHeap(r.heap, res, b, rest)
             ELSE mergeEntriesOnHeap(
                      [h EXCEPT ![res] = Put(@, k, h[b][k])], res, b, rest)

\* MergeAsSet writing into `this` itself instead of into a copy
MergeAsSetOnHeap_inPlace(h, a, b) ==
    IF a = 0 \/ b = 0
    THEN [heap |-> h, res |-> 0, err |-> TRUE]
    ELSE [heap |-> mergeEntriesOnHeap(h, a, b, DOMAIN h[b]), res |-> a, err |-> FALSE]

\* a and b are addresses, 0 the nil map
MergeAsSetOnHeap(h, a, b) ==
    IF a = 0 \/ b = 0
    THEN [heap |-> h, res |-> 0, err |-> TRUE]
    ELSE LET \* result := make(...); for k, v := range this { result[k] = v }
             h1 == NewObject(h, h[a])
             res == Len(h1)
         IN  [heap |-> mergeEntriesOnHeap(h1, res, b, DOMAIN h[b]),
              res |-> res, err |-> FALSE]

\* the value a heap object stands for (reflect.DeepEqual compares these)
RECURSIVE Deref(_, _)
Deref(h, a) ==
    [k \in DOMAIN h[a] |->
        IF h[a][k].leaf THEN LeafVal(h[a][k].v) ELSE MapVal(Deref(h, h[a][k].ref))]

\* the map argument an address stands for
DerefArg(h, a) == IF a = 0 THEN NilMap ELSE SomeMap(Deref(h, a))

\* the caller building a map value on the heap, nested maps first
RECURSIVE Alloc(_, _)
RECURSIVE AllocEntries(_, _, _, _)
AllocEntries(h, m, keys, obj) ==
    IF keys = {} THEN [heap |-> h, obj |-> obj]
    ELSE LET k == CHOOSE x \in keys : TRUE
         IN  IF m[k].leaf
             THEN AllocEntries(h, m, keys \ {k}, Put(obj, k, LeafVal(m[k].v)))
             ELSE LET c == Alloc(h, m[k].m)
                  IN  AllocEntries(c.heap, m, keys \ {k}, Put(obj, k, RefVal(c.addr)))
Alloc(h, m) ==
    LET r == AllocEntries(h, m, DOMAIN m, EmptyMap)
    IN  [heap |-> Append(r.heap, r.obj), addr |-> Len(r.heap) + 1]

AllocArg(h, a) ==
    IF a.nil THEN [heap |-> h, addr |-> 0] ELSE Alloc(h, a.m)

----------------------------------------------------------------------------
(* One call of MergeAsSet: the caller holds two maps (or nil) and calls.   *)

InitMerge ==
    /\ mpc = "call"
    /\ this \in MergeInputs
    /\ other \in MergeInputs
    /\ result = NilMap
    /\ LET a == AllocArg(<< >>, this)
           b == AllocArg(a.heap, other)
       IN  /\ heap = b.heap
           /\ thisAddr = a.addr
           /\ otherAddr = b.addr
    /\ resAddr = 0

\* result, err := utils.MergeAsSet(this, other)
CallMergeAsSet ==
    /\ mpc = "call"
    /\ mpc' = "ret"
    /\ LET r == MergeAsSetOnHeap(heap, thisAddr, otherAddr)
       IN  /\ heap' = r.heap
           /\ resAddr' = r.res
    /\ result' = MergeAsSet(this, other)
    /\ UNCHANGED <<this, other, thisAddr, otherAddr>>

\* the value-level and the heap-level merge return the same map
MergeModelsAgree ==
    mpc = "ret" =>
        /\ result.err = (resAddr = 0)
        /\ ~result.err => Deref(heap, resAddr) = result.m

----------------------------------------------------------------------------
(* Parse trees of text/template, as the walker reads them.                 *)

\* an argument of a command: a *parse.FieldNode (.a.b: Ident = a, b), a
\* *parse.VariableNode ($x.a: Ident = $x, a), the *parse.DotNode, or any
\* other node (an identifier, a string, a number, ...)
FieldNode(ident) == [t |-> "Field", ident |-> ident]
VariableNode(ident) == [t |-> "Variable", ident |-> ident]
DotNode == [t |-> "Dot", ident |-> << >>]
OtherArg == [t |-> "Other", ident |-> << >>]

\* a *parse.PipeNode: nil, or a sequence of commands, each a sequence of
\* arguments
NilPipe == [nil |-> TRUE, cmds |-> << >>]
PipeNode(cmds) == [nil |-> FALSE, cmds |-> cmds]

\* path[from:] of a Go slice, from counted from 0
SliceFrom(path, from) == SubSeq(path, from + 1, Len(path))

----------------------------------------------------------------------------
(* ExtractVarsFromPipe and buildNestedStructure.  The map that             *)
(* buildNestedStructure writes into is returned instead of being changed   *)
(* in place; ExtractVarsFromPipe owns it, nothing else refers to it.       *)

RECURSIVE buildNestedStructure(_, _, _)
\* buildNestedStructure writing the leaf at the first identifier, whatever
\* the length of the path
buildNestedStructure_flat(data, path, value) ==
    IF Len(path) = 0 THEN data ELSE Put(data, path[1], Leaf)

buildNestedStructure(data, path, value) ==
    IF Len(path) = 0 THEN data
    ELSE LET key == path[1]
         IN  IF Len(path) = 1
             THEN Put(data, key, Leaf)
             ELSE LET nestedMapValue ==
                          IF key \in DOMAIN data /\ IsMap(data[key])
                          THEN data[key].m
                          ELSE EmptyMap
                  IN  Put(data, key,
                          MapVal(buildNestedStructure(nestedMapValue, Tail(path), value)))

\* template.go:274-293, the switch on one argument
extractArg(data, node) ==
    CASE node.t = "Field" ->
             IF Len(node.ident) > 0
             THEN LET start == IF node.ident[1] = "." THEN 1 ELSE 0
                  IN  IF start < Len(node.ident)
                      THEN buildNestedStructure(data, SliceFrom(node.ident, start), "")
                      ELSE data
             ELSE data
      [] node.t = "Variable" ->
             IF Len(node.ident) > 0
             THEN buildNestedStructure(data, node.ident, "")
             ELSE data
      [] OTHER -> data

RECURSIVE extractArgs(_, _)
extractArgs(data, args) ==
    IF args = << >> THEN data
    ELSE extractArgs(extractArg(data, Head(args)), Tail(args))

RECURSIVE extractCmds(_, _)
extractCmds(data, cmds) ==
    IF cmds = << >> THEN data
    ELSE extractCmds(extractArgs(data, Head(cmds)), Tail(cmds))

ExtractVarsFromPipe(pipe) ==
    IF pipe.nil THEN EmptyMap ELSE extractCmds(EmptyMap, pipe.cmds)

----------------------------------------------------------------------------
(* Inputs of the extractor: pipes of one command of up to MaxArgs          *)
(* arguments, or of two commands of one argument, over field paths of up   *)
(* to MaxPath identifiers.                                                 *)

MaxPath == 3
MaxArgs == 2
FieldKeys == {"a", "b"}

RECURSIVE PathsOfLen(_)
PathsOfLen(n) ==
    IF n = 0 THEN {<< >>}
    ELSE {<<k>> \o p : k \in FieldKeys, p \in PathsOfLen(n - 1)}
FieldPaths == UNION {PathsOfLen(n) : n \in 1..MaxPath}

ExtractArgs ==
    {FieldNode(p) : p \in FieldPaths}
        \cup {FieldNode(<< >>), VariableNode(<<"$x", "a">>), DotNode, OtherArg}

RECURSIVE CmdsOfLen(_)
CmdsOfLen(n) ==
    IF n = 0 THEN {<< >>}
    ELSE {<<a>> \o c : a \in ExtractArgs, c \in CmdsOfLen(n - 1)}

ExtractPipes ==
    {NilPipe}
        \cup {PipeNode(<<c>>) : c \in UNION {CmdsOfLen(n) : n \in 1..MaxArgs}}
        \cup {PipeNode(<<c1, c2>>) : c1 \in CmdsOfLen(1), c2 \in CmdsOfLen(1)}

InitExtract ==
    /\ xpc = "call"
    /\ xpipe \in ExtractPipes
    /\ xfrag = EmptyMap

\* frag := ExtractVarsFromPipe(pipe)
CallExtractVarsFromPipe ==
    /\ xpc = "call"
    /\ xpc' = "ret"
    /\ xfrag' = ExtractVarsFromPipe(xpipe)
    /\ UNCHANGED xpipe

----------------------------------------------------------------------------
(* Nodes of a parse tree.  Every node is a record of the same fields; a    *)
(* field a node kind does not have is empty.  A *parse.ListNode that may   *)
(* be nil (List, ElseList) is a sequence of no or one list node.           *)

\* a template name: `stem` or `stem.tmpl`
TmplName(stem, tmpl) == [stem |-> stem, tmpl |-> tmpl]
NoName == TmplName("", FALSE)
\* strings.HasSuffix(name, ".tmpl")
HasTmplSuffix(name) == name.tmpl
\* name + ".tmpl"
AddTmplSuffix(name) == [name EXCEPT !.tmpl = TRUE]

NilList == << >>
MkNode(type, pipe, nodes, list, elseList, name) ==
    [type |-> type, pipe |-> pipe, nodes |-> nodes,
     list |-> list, elseList |-> elseList, name |-> name]
ListNode(nodes) == MkNode("List", NilPipe, nodes, NilList, NilList, NoName)
TextNode == MkNode("Text", NilPipe, << >>, NilList, NilList, NoName)
ActionNode(pipe) == MkNode("Action", pipe, << >>, NilList, NilList, NoName)
IfNode(pipe, list, elseList) == MkNode("If", pipe, << >>, <<list>>, elseList, NoName)
RangeNode(pipe, list, elseList) == MkNode("Range", pipe, << >>, <<list>>, elseList, NoName)
WithNode(pipe, list, elseList) == MkNode("With", pipe, << >>, <<list>>, elseList, NoName)
TemplateNode(name, pipe) == MkNode("Template", pipe, << >>, NilList, NilList, name)

----------------------------------------------------------------------------
(* utils.UniqueString and findTemplateDependencies.                        *)

RECURSIVE uniqueFrom(_, _)
uniqueFrom(items, seen) ==
    IF items = << >> THEN << >>
    ELSE IF Head(items) \in seen
         THEN uniqueFrom(Tail(items), seen)
         ELSE <<Head(items)>> \o uniqueFrom(Tail(items), seen \cup {Head(items)})
UniqueString(items) == uniqueFrom(items, {})

RECURSIVE findTemplateDependencies(_)
RECURSIVE findDependenciesOfNodes(_)
\* template.go:417-419, the loop over the nodes of a list
findDependenciesOfNodes(nodes) ==
    IF nodes = << >> THEN << >>
    ELSE findTemplateDependencies(Head(nodes)) \o findDependenciesOfNodes(Tail(nodes))
\* a scan that looks into List only
findDependenciesOfBranches_listOnly(n) == findDependenciesOfNodes(n.list)

\* template.go:427-432 (and 436-441, 445-450): List, then ElseList
findDependenciesOfBranches(n) ==
    findDependenciesOfNodes(n.list) \o findDependenciesOfNodes(n.elseList)
findTemplateDependencies(n) ==
    UniqueString(
        CASE n.type = "List" -> findDependenciesOfNodes(n.nodes)
          [] n.type = "Template" -> <<n.name>>
          [] n.type \in {"If", "Range", "With"} -> findDependenciesOfBranches(n)
          [] OTHER -> << >>)

----------------------------------------------------------------------------
(* Template.walk.  A walk ends with a fragment ("ok"), or the goroutine    *)
(* dies: "panic" when the type assertion of template.go:158 meets a value  *)
(* that is no map, "overflow" when the recursion through Include nodes     *)
(* exceeds the stack (modelled as MaxIncludeDepth nested inclusions).      *)

MaxIncludeDepth == 4

Ok(data) == [st |-> "ok", data |-> data]
Died(st) == [st |-> st, data |-> EmptyMap]

\* if result, err := utils.MergeAsSet(data, x); err == nil { data = result }
mergeInto(data, x) ==
    LET r == MergeAsSet(SomeMap(data), SomeMap(x))
    IN  IF r.err THEN data ELSE r.m

\* template.go:135-148: the first field of a command sets rangePath, and a
\* later command overrides an earlier one
RECURSIVE firstFieldOf(_)
firstFieldOf(args) ==
    IF args = << >> THEN [found |-> FALSE, path |-> << >>]
    ELSE LET arg == Head(args)
         IN  IF arg.t = "Field" /\ Len(arg.ident) > 0
             THEN [found |-> TRUE,
                   path |-> SliceFrom(arg.ident, IF arg.ident[1] = "." THEN 1 ELSE 0)]
             ELSE firstFieldOf(Tail(args))
RECURSIVE rangePathOf(_, _)
rangePathOf(cmds, rangePath) ==
    IF cmds = << >> THEN rangePath
    ELSE LET f == firstFieldOf(Head(cmds))
         IN  rangePathOf(Tail(cmds), IF f.found THEN f.path ELSE rangePath)

\* template.go:151-166: build the structure up to the range variable and
\* mark it; the type assertion panics on a value that is no map
RECURSIVE markRangePath(_, _)
markRangePath(current, rangePath) ==
    LET key == rangePath[1]
    IN  IF Len(rangePath) = 1
        THEN Ok(IF key \in DOMAIN current THEN current ELSE Put(current, key, Leaf))
        ELSE LET next == IF key \in DOMAIN current THEN current[key] ELSE MapVal(EmptyMap)
             IN  IF ~IsMap(next) THEN Died("panic")
                 ELSE LET r == markRangePath(next.m, Tail(rangePath))
                      IN  IF r.st # "ok" THEN r
                          ELSE Ok(Put(current, key, MapVal(r.data)))

\* a With that does not reparent: the body's fields stay at the top level
reparent_flat(data, withKeys, innerVars) == mergeInto(data, innerVars)

\* template.go:190-201: every key of withVars gets a map holding innerVars
RECURSIVE reparent(_, _, _)
reparent(data, withKeys, innerVars) ==
    IF withKeys = {} THEN data
    ELSE LET withKey == CHOOSE k \in withKeys : TRUE
             withMap == IF IsMap(data[withKey]) THEN data[withKey].m ELSE EmptyMap
             filled == [k \in (DOMAIN withMap) \cup (DOMAIN innerVars) |->
                           IF k \in DOMAIN innerVars THEN innerVars[k] ELSE withMap[k]]
         IN  reparent(Put(data, withKey, MapVal(filled)), withKeys \ {withKey}, innerVars)

RECURSIVE walk(_, _, _)
RECURSIVE walkNodes(_, _, _, _)
RECURSIVE walkDeps(_, _, _, _)

\* data merged with the walk of an optional list (List, ElseList)
walkBranch(data, branch, set, depth) ==
    IF branch = NilList THEN Ok(data)
    ELSE LET w == walk(branch[1], set, depth)
         IN  IF w.st # "ok" THEN w ELSE Ok(mergeInto(data, w.data))

\* template.go:93-97
walkNodes(data, nodes, set, depth) ==
    IF nodes = << >> THEN Ok(data)
    ELSE LET w == walk(Head(nodes), set, depth)
         IN  IF w.st # "ok" THEN w
             ELSE walkNodes(mergeInto(data, w.data), Tail(nodes), set, depth)

\* template.go:230-237
walkDeps(data, deps, set, depth) ==
    IF deps = << >> THEN Ok(data)
    ELSE IF Head(deps) \in DOMAIN set
         THEN LET w == walk(set[Head(deps)], set, depth)
              IN  IF w.st # "ok" THEN w
                  ELSE walkDeps(mergeInto(data, w.data), Tail(deps), set, depth)
         ELSE walkDeps(data, Tail(deps), set, depth)

\* template.go:105-122
walkIf(n, set, depth) ==
    LET d1 == IF n.pipe.nil THEN EmptyMap
              ELSE mergeInto(EmptyMap, ExtractVarsFromPipe(n.pipe))
        w2 == walkBranch(d1, n.list, set, depth)
    IN  IF w2.st # "ok" THEN w2 ELSE walkBranch(w2.data, n.elseList, set, depth)

\* template.go:123-174
walkRange(n, set, depth) ==
    LET w1 == IF n.pipe.nil THEN Ok(EmptyMap)
              ELSE LET data == mergeInto(EmptyMap, ExtractVarsFromPipe(n.pipe))
                       rangePath == rangePathOf(n.pipe.cmds, << >>)
                   IN  IF n.list # NilList /\ Len(rangePath) > 0
                       THEN markRangePath(data, rangePath)
                       ELSE Ok(data)
    IN  IF w1.st # "ok" THEN w1 ELSE walkBranch(w1.data, n.elseList, set, depth)

\* template.go:175-209
walkWith(n, set, depth) ==
    LET w1 == IF n.pipe.nil THEN Ok(EmptyMap)
              ELSE LET withVars == ExtractVarsFromPipe(n.pipe)
                       data == mergeInto(EmptyMap, withVars)
                   IN  IF n.list = NilList THEN Ok(data)
                       ELSE LET innerVars == walk(n.list[1], set, depth)
                            IN  IF innerVars.st # "ok" THEN innerVars
                                ELSE Ok(reparent(data, DOMAIN withVars, innerVars.data))
    IN  IF w1.st # "ok" THEN w1 ELSE walkBranch(w1.data, n.elseList, set, depth)

\* template.go:245-250: the Include's own pipe
walkTemplatePipe_resolvedOnly(n, set, w1) ==
    IF n.pipe.nil \/ n.name \notin DOMAIN set THEN w1
    ELSE Ok(mergeInto(w1.data, ExtractVarsFromPipe(n.pipe)))

walkTemplatePipe(n, set, w1) ==
    IF n.pipe.nil THEN w1
    ELSE Ok(mergeInto(w1.data, ExtractVarsFromPipe(n.pipe)))

\* template.go:210-252
walkTemplate(n, set, depth) ==
    LET w1 == IF n.name \in DOMAIN set
              THEN IF depth >= MaxIncludeDepth THEN Died("overflow")
                   ELSE LET nestedRoot == set[n.name]
                            deps == findTemplateDependencies(nestedRoot)
                            templateData == walk(nestedRoot, set, depth + 1)
                        IN  IF templateData.st # "ok" THEN templateData
                            ELSE LET d == walkDeps(EmptyMap, deps, set, depth + 1)
                                 IN  IF d.st # "ok" THEN d
                                     ELSE Ok(mergeInto(d.data, templateData.data))
              ELSE Ok(EmptyMap)
    IN  IF w1.st # "ok" THEN w1 ELSE walkTemplatePipe(n, set, w1)

\* set is t.Tmpl's template set (name -> root node), depth the number of
\* Include nodes the walk is inside of
walk(node, set, depth) ==
    CASE node.type = "List" -> walkNodes(EmptyMap, node.nodes, set, depth)
      [] node.type = "Action" ->
             IF node.pipe.nil THEN Ok(EmptyMap)
             ELSE Ok(mergeInto(EmptyMap, ExtractVarsFromPipe(node.pipe)))
      [] node.type = "If" -> walkIf(node, set, depth)
      [] node.type = "Range" -> walkRange(node, set, depth)
      [] node.type = "With" -> walkWith(node, set, depth)
      [] node.type = "Template" -> walkTemplate(node, set, depth)
      [] OTHER -> Ok(EmptyMap)

----------------------------------------------------------------------------
(* Templates and the registry.  The registry maps a path to the content    *)
(* of the template stored there: its parse tree, or a syntax error.  A     *)
(* Template object t holds its Path, its OriginalContent, whether it has   *)
(* a registry (t.r # nil) and t.Tmpl's template set (name -> root node);   *)
(* t.Tmpl.Tree is the set's entry for t's own name, nil until t is parsed. *)

Parsed(root) == [ok |-> TRUE, root |-> root]
SyntaxError == [ok |-> FALSE, root |-> ListNode(<< >>)]

NewTemplate(name, content, hasReg) ==
    [path |-> name, content |-> content, hasReg |-> hasReg, set |-> << >>]

\* t.Tmpl.Tree != nil
HasTree(t) == t.path \in DOMAIN t.set

\* parse.IsEmptyTree
IsEmptyTree(root) == root.nodes = << >>

\* text/template's AddParseTree: the tree is installed under the name,
\* except that an empty tree does not replace a template of that name
AddParseTree(set, name, tree) ==
    IF name \in DOMAIN set /\ IsEmptyTree(tree) THEN set ELSE Put(set, name, tree)

NoError == ""

\* the state of one LoadDependencies call: the paths marked processed, the
\* root template's set, the paths asked of the registry (in order), and the
\* error that ended the call
LoadState(set) ==
    [processed |-> {}, set |-> set, finds |-> << >>, err |-> NoError, errName |-> NoName]

\* a visited test that asks the template set instead of processed
alreadyProcessed_inSet(st, depPath) == depPath \in DOMAIN st.set

\* template.go:372: processed[depPath]
alreadyProcessed(st, depPath) == depPath \in st.processed

\* a failed Find that is passed over
errorFinding_ignored(st, depPath) == st

\* template.go:379-381: return fmt.Errorf("error finding template %s: %w", ...)
errorFinding(st, depPath) ==
    [st EXCEPT !.err = "error finding template", !.errName = depPath]

\* a dependency's syntax error that is passed over
errorParsingDependent_ignored(st, depPath) == st

\* template.go:385-388: return fmt.Errorf("error parsing dependent template ...")
errorParsingDependent(st, depPath) ==
    [st EXCEPT !.err = "error parsing dependent template", !.errName = depPath]

RECURSIVE addDependenciesRecursive(_, _, _, _, _)
RECURSIVE addEachDependency(_, _, _)
\* template.go:364-402, the loop over deps
addEachDependency(deps, reg, st) ==
    IF deps = << >> \/ st.err # NoError THEN st
    ELSE LET depName == Head(deps)
             depPath == IF ~HasTmplSuffix(depName) THEN AddTmplSuffix(depName) ELSE depName
         IN  IF alreadyProcessed(st, depPath)
             THEN addEachDependency(Tail(deps), reg, st)
             ELSE LET asked == [st EXCEPT !.finds = Append(@, depPath)]
                  IN  IF depPath \notin DOMAIN reg
                      THEN addEachDependency(Tail(deps), reg, errorFinding(asked, depPath))
                      ELSE IF ~reg[depPath].ok
                      THEN addEachDependency(Tail(deps), reg,
                               errorParsingDependent(asked, depPath))
                      ELSE LET tree == reg[depPath].root
                               added == [asked EXCEPT
                                            !.set = AddParseTree(@, depName, tree)]
                           IN  addEachDependency(Tail(deps), reg,
                                   addDependenciesRecursive(
                                       depPath, reg[depPath], FALSE, reg, added))

\* path and content are those of the template t the method is called on.
\* For the root template (globalParent) t.Tmpl is the set st.set, its Tree
\* is nil until it is parsed, and parsing installs it in that set; a
\* dependency was parsed (template.go:385) in a set of its own before the
\* method is called on it.
addDependenciesRecursive(path, content, isRoot, reg, st) ==
    LET marked == [st EXCEPT !.processed = @ \cup {path}]
        treeIsNil == isRoot /\ path \notin DOMAIN st.set
    IN  IF treeIsNil /\ ~content.ok
        THEN [marked EXCEPT !.err = "error parsing template", !.errName = path]
        ELSE LET parsed == IF treeIsNil
                           THEN [marked EXCEPT !.set = AddParseTree(@, path, content.root)]
                           ELSE marked
                 tree == IF isRoot /\ ~treeIsNil THEN st.set[path] ELSE content.root
             IN  addEachDependency(findTemplateDependencies(tree), reg, parsed)

\* returns the template as the call leaves it and the call's LoadState
\* a load that does not look whether a registry is set
LoadDependencies_registryUnchecked(t, reg) ==
    LET st == addDependenciesRecursive(t.path, t.content, TRUE, reg, LoadState(t.set))
    IN  [t |-> [t EXCEPT !.set = st.set], st |-> st]

LoadDependencies(t, reg) ==
    IF ~t.hasReg
    THEN [t |-> t, st |-> [LoadState(t.set) EXCEPT !.err = "no registry set",
                                                  !.errName = t.path]]
    ELSE LET st == addDependenciesRecursive(t.path, t.content, TRUE, reg, LoadState(t.set))
         IN  [t |-> [t EXCEPT !.set = st.set], st |-> st]

\* returns the template as the call leaves it, how the call ended ("ok",
\* "error", or the goroutine died: "panic", "overflow"), the error and the
\* *Config's data (the nil map when no Config is returned)
GenerateConfig(t, reg) ==
    LET l == LoadDependencies(t, reg)
    IN  IF l.st.err # NoError
        THEN [t |-> l.t, st |-> "error", err |-> "error loading dependencies",
              cfg |-> NilMap]
        ELSE IF ~HasTree(l.t) /\ ~l.t.content.ok
        THEN [t |-> l.t, st |-> "error", err |-> "err parsing template", cfg |-> NilMap]
        ELSE LET t2 == IF HasTree(l.t) THEN l.t
                       ELSE [l.t EXCEPT !.set = AddParseTree(@, l.t.path, l.t.content.root)]
                 data == walk(t2.set[t2.path], t2.set, 0)
             IN  IF data.st # "ok"
                 THEN [t |-> t2, st |-> data.st, err |-> NoError, cfg |-> NilMap]
                 ELSE [t |-> t2, st |-> "ok", err |-> NoError, cfg |-> SomeMap(data.data)]

----------------------------------------------------------------------------
(* A Template in use: the caller creates it and calls LoadDependencies     *)
(* and GenerateConfig on it, in any order, any number of times.            *)

NotLoaded == [called |-> FALSE, st |-> LoadState(<< >>)]
NotGenerated == [called |-> FALSE, st |-> "ok", err |-> NoError, cfg |-> NilMap]
NotValidated ==
    [called |-> FALSE, cfg |-> NilMap, st |-> "ok", err |-> NoError, missing |-> {}]

\* err := t.LoadDependencies()
CallLoadDependencies ==
    /\ alive
    /\ \E r \in {LoadDependencies(template, registry)} :
           /\ template' = r.t
           /\ loaded' = [called |-> TRUE, st |-> r.st]
    /\ UNCHANGED <<registry, generated, alive, validated, mergeVars, extractVars, systemVars>>

\* config, err := t.GenerateConfig(path)
CallGenerateConfig ==
    /\ alive
    /\ \E r \in {GenerateConfig(template, registry)} :
           /\ template' = r.t
           /\ generated' = [called |-> TRUE, st |-> r.st, err |-> r.err, cfg |-> r.cfg]
           /\ alive' = (r.st \in {"ok", "error"})
    /\ UNCHANGED <<registry, loaded, validated, mergeVars, extractVars, systemVars>>

NextTemplate == CallLoadDependencies \/ CallGenerateConfig

----------------------------------------------------------------------------
(* The validator, Template.Parse(cfg): the top-level keys of the required  *)
(* schema that the supplied configuration lacks.                           *)

\* a validator that misses a key whose supplied value is no map where the
\* schema asks for one
missingFields_deep(required, cfg) ==
    {key \in DOMAIN required :
        \/ key \notin DOMAIN cfg.m
        \/ IsMap(required[key]) /\ ~IsMap(cfg.m[key])}

\* template.go:54-59: the keys of requiredConfig.Config not in cfg.Config
\* (reading a nil map finds no key)
missingFields(required, cfg) ==
    {key \in DOMAIN required : key \notin DOMAIN cfg.m}

\* template.go:60-63: a MissingFieldsError when a field is missing
reportMissing(t, missing) ==
    IF missing # {}
    THEN [t |-> t, st |-> "error", err |-> "Missing", missing |-> missing]
    ELSE [t |-> t, st |-> "ok", err |-> NoError, missing |-> {}]

\* template.go:51-63, g being what GenerateConfig returned
validateAgainst(g, cfg) ==
    IF g.st # "ok"
    THEN [t |-> g.t, st |-> g.st, err |-> g.err, missing |-> {}]
    ELSE reportMissing(g.t, missingFields(g.cfg.m, cfg))

\* template.go:49-64; returns the template as the call leaves it, how the
\* call ended, the error and the fields of a MissingFieldsError
Parse(t, reg, cfg) == validateAgainst(GenerateConfig(t, reg), cfg)

\* the configurations a caller supplies
ConfigKeys == {"a", "b", "c"}
ConfigValues == {LeafVal("v"), MapVal(EmptyMap), MapVal([b |-> LeafVal("v")])}
SuppliedConfigs ==
    {NilMap} \cup {SomeMap(m) : m \in UNION {[ks -> ConfigValues] : ks \in SUBSET ConfigKeys}}

\* err := t.Parse(cfg)
CallParse ==
    /\ alive
    /\ \E cfg \in SuppliedConfigs :
       \E r \in {Parse(template, registry, cfg)} :
           /\ template' = r.t
           /\ validated' = [called |-> TRUE, cfg |-> cfg, st |-> r.st, err |-> r.err,
                            missing |-> r.missing]
           /\ alive' = (r.st \in {"ok", "error"})
    /\ UNCHANGED <<registry, loaded, generated, mergeVars, extractVars, systemVars>>

----------------------------------------------------------------------------
(* The PromptSystem over a registry: templates by path (Find) and one      *)
(* stored configuration at configPath (LoadConfig, SaveConfig).  The store *)
(* holds the decoded JSON object; LoadConfig fails when nothing is stored, *)
(* SaveConfig when the file cannot be written.  Whether the execution of a *)
(* parsed template on a configuration succeeds is text/template's matter   *)
(* and an input of the call (executes).                                    *)

\* what a PromptSystem call returned: how it ended, the error, the prompt
\* (Build), and the configuration loaded, the schema generated and the
\* configuration saved on the way (GenerateOrFillConfig); path is the
\* templatePath the call was given
Outcome(op, st, err, out, loadedCfg, genCfg, savedCfg) ==
    [op |-> op, path |-> NoName, st |-> st, err |-> err, out |-> out,
     loadedCfg |-> loadedCfg, genCfg |-> genCfg, savedCfg |-> savedCfg]
NoOutcome == Outcome("none", "ok", NoError, "", NilMap, NilMap, NilMap)

\* what a call leaves behind: its outcome, the steps it took, the store
Left(outcome_, calls_, store_) == [outcome |-> outcome_, calls |-> calls_, store |-> store_]

\* registry.go Find: a template of that path, with the registry
Find(reg, path) == NewTemplate(path, reg[path], TRUE)

\* template.go:41-45, l being what LoadDependencies returned
execute(l, cfg, executes) ==
    IF l.st.err # NoError
    THEN [out |-> "", err |-> l.st.err]
    ELSE IF ~executes
    THEN [out |-> "", err |-> "template execution error"]
    ELSE [out |-> "prompt", err |-> NoError]

\* template.go:37-46, Template.Build: load the dependencies, then execute
Build(t, reg, cfg, executes) == execute(LoadDependencies(t, reg), cfg, executes)

BuildSteps(n) == SubSeq(<<"Find", "LoadConfig", "Parse", "Build">>, 1, n)
BuildOutcome(st, err, out, n, store_) ==
    Left(Outcome("Build", st, err, out,
                 IF n >= 2 /\ store_.exists THEN store_.cfg ELSE NilMap, NilMap, NilMap),
         BuildSteps(n), store_)

\* system.go:53, b being what Template.Build returned
buildRendered(b, store_) ==
    BuildOutcome(IF b.err = NoError THEN "ok" ELSE "error", b.err, b.out, 4, store_)

\* a Build that renders whatever the validation said
buildValidated_unchecked(v, reg, store_, executes) ==
    buildRendered(Build(v.t, reg, store_.cfg, executes), store_)

\* system.go:50-53, v being what Template.Parse returned
buildValidated(v, reg, store_, executes) ==
    IF v.st # "ok"
    THEN BuildOutcome(v.st, v.err, "", 3, store_)
    ELSE buildRendered(Build(v.t, reg, store_.cfg, executes), store_)

\* system.go:40-55, PromptSystem.Build
SystemBuild(reg, store_, templatePath, executes) ==
    IF templatePath \notin DOMAIN reg
    THEN BuildOutcome("error", "err finding template", "", 1, store_)
    ELSE IF ~store_.exists
    THEN BuildOutcome("error", "err loading confing", "", 2, store_)
    ELSE buildValidated(Parse(Find(reg, templatePath), reg, store_.cfg), reg, store_, executes)

\* a fill that lets the schema win over the existing configuration
mergeConfigs_schemaFirst(loadedCfg, genCfg) == MergeAsSet(genCfg, loadedCfg)

\* a fill that copies the existing keys and adds the missing top-level keys
\* with the empty string
mergeConfigs_topLevel(loadedCfg, genCfg) ==
    IF loadedCfg.nil THEN MergeAsSet(loadedCfg, genCfg)
    ELSE [err |-> FALSE, nil |-> FALSE,
          m |-> [k \in DOMAIN loadedCfg.m \cup DOMAIN genCfg.m |->
                    IF k \in DOMAIN loadedCfg.m THEN loadedCfg.m[k] ELSE Leaf]]

\* a fill that saves the existing configuration as it is
mergeConfigs_existingOnly(loadedCfg, genCfg) == MergeAsSet(loadedCfg, loadedCfg)

\* system.go:71: utils.MergeAsSet(loadedCfg.Config, genCfg.Config)
mergeConfigs(loadedCfg, genCfg) == MergeAsSet(loadedCfg, genCfg)

FillSteps(n) == SubSeq(<<"Find", "GenerateConfig", "LoadConfig", "SaveConfig">>, 1, n)
FillOutcome(st, err, n, genCfg, savedCfg, store_) ==
    Left(Outcome("GenerateOrFillConfig", st, err, "",
                 IF n >= 3 /\ store_.exists THEN store_.cfg ELSE NilMap, genCfg, savedCfg),
         FillSteps(n),
         IF savedCfg.nil THEN store_ ELSE [store_ EXCEPT !.cfg = savedCfg])

\* system.go:72-76, merged being what MergeAsSet returned
fillMerged(merged, genCfg, store_) ==
    IF merged.err
    THEN FillOutcome("error", "err merged configs", 3, genCfg, NilMap, store_)
    ELSE IF ~store_.writable
    THEN FillOutcome("error", "failed to write config file", 4, genCfg, NilMap, store_)
    ELSE FillOutcome("ok", NoError, 4, genCfg, SomeMap(merged.m), store_)

\* a fill that saves the schema when no configuration could be loaded
fillGenerated_createsConfig(g, store_) ==
    IF g.st # "ok"
    THEN FillOutcome(g.st, IF g.st = "error" THEN "err generating config" ELSE NoError,
                     2, NilMap, NilMap, store_)
    ELSE IF ~store_.exists
    THEN FillOutcome("ok", NoError, 4, g.cfg, g.cfg, store_)
    ELSE fillMerged(mergeConfigs(store_.cfg, g.cfg), g.cfg, store_)

\* system.go:64-71, g being what Template.GenerateConfig returned
fillGenerated(g, store_) ==
    IF g.st # "ok"
    THEN FillOutcome(g.st, IF g.st = "error" THEN "err generating config" ELSE NoError,
                     2, NilMap, NilMap, store_)
    ELSE IF ~store_.exists
    THEN FillOutcome("error", "err loading config", 3, g.cfg, NilMap, store_)
    ELSE fillMerged(mergeConfigs(store_.cfg, g.cfg), g.cfg, store_)

\* system.go:58-78, PromptSystem.GenerateOrFillConfig
GenerateOrFillConfig(reg, store_, templatePath) ==
    IF templatePath \notin DOMAIN reg
    THEN FillOutcome("error", "err finding template", 1, NilMap, NilMap, store_)
    ELSE fillGenerated(GenerateConfig(Find(reg, templatePath), reg), store_)

\* the paths of the templates the model stores
PathA == TmplName("a", TRUE)
PathB == TmplName("b", TRUE)
PathC == TmplName("c", TRUE)

\* the registry holding content x at path p
Stored(p, x) == (p :> x)

\* a pipe of one command
Pipe1(args) == PipeNode(<<args>>)
F(path) == FieldNode(path)

\* every sequence of at most n elements of S
RECURSIVE SeqsUpTo(_, _)
SeqsUpTo(S, n) ==
    IF n = 0 THEN {<< >>}
    ELSE SeqsUpTo(S, n - 1) \cup {<<x>> \o q : x \in S, q \in {r \in SeqsUpTo(S, n - 1) : Len(r) = n - 1}}

----------------------------------------------------------------------------
(* Inputs of the walker: one template that includes nothing, holding one   *)
(* block (if, range, with) whose body holds up to MaxBody actions, alone   *)
(* or beside an action.                                                    *)

MaxBody == 2

BodyPipes == {Pipe1(<<F(<<"a">>)>>), Pipe1(<<F(<<"b">>)>>), Pipe1(<<F(<<"a", "b">>)>>)}
HeadPipes ==
    BodyPipes \cup
        {Pipe1(<<F(<<"c">>)>>),
         Pipe1(<<DotNode>>),
         Pipe1(<<OtherArg, F(<<"a">>), F(<<"b">>)>>),
         Pipe1(<<F(<<"a", "b">>), F(<<"a">>)>>),
         Pipe1(<<F(<<"a">>), F(<<"a", "b">>)>>)}

ActionBodies == {ListNode(q) : q \in SeqsUpTo({ActionNode(p) : p \in BodyPipes}, MaxBody)}
BlockBodies ==
    {ListNode(<<WithNode(Pipe1(<<F(<<"b">>)>>), ListNode(<<ActionNode(Pipe1(<<F(<<"a">>)>>))>>), NilList)>>),
     ListNode(<<RangeNode(Pipe1(<<F(<<"b">>)>>), ListNode(<<ActionNode(Pipe1(<<F(<<"a">>)>>))>>), NilList)>>),
     ListNode(<<TextNode, IfNode(Pipe1(<<F(<<"b">>)>>), ListNode(<<ActionNode(Pipe1(<<F(<<"a">>)>>))>>),
                                 <<ListNode(<<ActionNode(Pipe1(<<F(<<"b", "a">>)>>))>>)>>)>>)}
Bodies == ActionBodies \cup BlockBodies
ElseLists ==
    {NilList,
     <<ListNode(<<ActionNode(Pipe1(<<F(<<"b">>)>>))>>)>>,
     <<ListNode(<<ActionNode(Pipe1(<<F(<<"a", "b">>)>>))>>)>>}

Blocks ==
    {IfNode(p, b, e) : p \in HeadPipes, b \in Bodies, e \in ElseLists}
        \cup {RangeNode(p, b, e) : p \in HeadPipes, b \in Bodies, e \in ElseLists}
        \cup {WithNode(p, b, e) : p \in HeadPipes, b \in Bodies, e \in ElseLists}

\* the root holds one node n, alone or beside one action
InitWalk ==
    /\ \E n \in Blocks \cup {ActionNode(p) : p \in HeadPipes} \cup {TextNode} :
       \E before, after \in {<< >>} \cup {<<ActionNode(p)>> : p \in BodyPipes} :
          /\ Len(before) + Len(after) <= 1
          /\ before # << >> \/ after # << >> => n \in Blocks
          /\ registry = Stored(PathA, Parsed(ListNode(before \o <<n>> \o after)))
          /\ template = NewTemplate(PathA, registry[PathA], TRUE)
    /\ loaded = NotLoaded
    /\ generated = NotGenerated
    /\ validated = NotValidated
    /\ alive = TRUE

----------------------------------------------------------------------------
(* Inputs of the resolver: a registry of up to three templates, a.tmpl     *)
(* (the root), b.tmpl and c.tmpl, that include one another.                *)

MaxRootItems == 2

Include(name) == TemplateNode(name, Pipe1(<<DotNode>>))
Field(path) == ActionNode(Pipe1(<<F(path)>>))

RootItems ==
    {Field(<<"a">>), Field(<<"a", "b">>),
     Include(PathA), Include(PathB), Include(PathC), Include(TmplName("b", FALSE)),
     TemplateNode(PathB, Pipe1(<<F(<<"b">>)>>)),
     IfNode(Pipe1(<<F(<<"c">>)>>), ListNode(<<Include(PathB)>>), <<ListNode(<<Include(PathC)>>)>>)}
RootContents ==
    {SyntaxError} \cup {Parsed(ListNode(q)) : q \in SeqsUpTo(RootItems, MaxRootItems)}

DepItemsB ==
    {Field(<<"a">>), Field(<<"a", "b">>), Include(PathA), Include(PathB), Include(PathC),
     WithNode(Pipe1(<<F(<<"c">>)>>), ListNode(<<Include(PathC)>>), NilList),
     RangeNode(Pipe1(<<F(<<"c">>)>>), ListNode(<<Include(PathC)>>),
               <<ListNode(<<Include(TmplName("c", FALSE))>>)>>)}
ContentsB ==
    {SyntaxError}
        \cup {Parsed(ListNode(<<n>>)) : n \in DepItemsB}
        \cup {Parsed(ListNode(<<Field(<<"a">>), Include(PathC)>>)),
              Parsed(ListNode(<<Include(PathC), Field(<<"a">>)>>)),
              Parsed(ListNode(<<Include(PathA), Field(<<"a", "b">>)>>))}
ContentsC ==
    {SyntaxError, Parsed(ListNode(<< >>)), Parsed(ListNode(<<Field(<<"a", "b">>)>>)),
     Parsed(ListNode(<<Field(<<"b">>)>>)), Parsed(ListNode(<<Include(PathA)>>))}

\* the root is stored; b.tmpl and c.tmpl are stored or absent
InitLoad ==
    /\ \E a \in RootContents :
       \E b \in {<< >>} \cup {Stored(PathB, x) : x \in ContentsB} :
       \E c \in {<< >>} \cup {Stored(PathC, x) : x \in ContentsC} :
          registry = Stored(PathA, a) @@ b @@ c
    /\ template = NewTemplate(PathA, registry[PathA], TRUE)
    /\ loaded = NotLoaded
    /\ generated = NotGenerated
    /\ validated = NotValidated
    /\ alive = TRUE

\* templates created without a registry, next to a registry that stores
\* what they include
InitNoRegistry ==
    /\ \E content \in {SyntaxError}
           \cup {Parsed(ListNode(q)) : q \in SeqsUpTo(RootItems, MaxRootItems)} :
          template = NewTemplate(PathA, content, FALSE)
    /\ registry = Stored(PathB, Parsed(ListNode(<<Field(<<"b">>)>>)))
                     @@ Stored(PathC, Parsed(ListNode(<<Field(<<"c">>)>>)))
    /\ loaded = NotLoaded
    /\ generated = NotGenerated
    /\ validated = NotValidated
    /\ alive = TRUE

----------------------------------------------------------------------------
(* Inputs of the validator: one template that includes nothing, of up to   *)
(* MaxRootItems nodes, or one that does not parse, and every supplied      *)
(* configuration over three keys.                                          *)

ValidateItems ==
    {Field(<<"a">>), Field(<<"b">>), Field(<<"a", "b">>),
     WithNode(Pipe1(<<F(<<"c">>)>>), ListNode(<<Field(<<"a">>)>>), NilList)}

InitValidate ==
    /\ \E content \in {SyntaxError}
           \cup {Parsed(ListNode(q)) : q \in SeqsUpTo(ValidateItems, MaxRootItems)} :
          /\ registry = Stored(PathA, content)
          /\ template = NewTemplate(PathA, content, TRUE)
    /\ loaded = NotLoaded
    /\ generated = NotGenerated
    /\ validated = NotValidated
    /\ alive = TRUE


\* the templates and the stored configurations of the PromptSystem runs
SystemItems ==
    {Field(<<"a">>), Field(<<"b">>), Field(<<"a", "b">>), Include(PathB)}
SystemContentsB == {Parsed(ListNode(<<Field(<<"b">>)>>)), Parsed(ListNode(<<Include(PathA)>>))}
StoredKeys == {"a", "b"}
StoredConfigs ==
    {NilMap} \cup {SomeMap(m) : m \in UNION {[ks -> ConfigValues] : ks \in SUBSET StoredKeys}}

InitSystem ==
    /\ \E content \in {SyntaxError}
           \cup {Parsed(ListNode(q)) : q \in SeqsUpTo(SystemItems, MaxRootItems)} :
          \/ registry = Stored(PathA, content)
          \/ \E contentB \in SystemContentsB :
                 registry = Stored(PathA, content) @@ Stored(PathB, contentB)
    /\ \/ store = [exists |-> FALSE, writable |-> TRUE, cfg |-> NilMap]
       \/ \E cfg \in StoredConfigs, writable \in BOOLEAN :
              store = [exists |-> TRUE, writable |-> writable, cfg |-> cfg]
    /\ calls = << >>
    /\ outcome = NoOutcome
    /\ template = NewTemplate(NoName, SyntaxError, FALSE)
    /\ loaded = NotLoaded
    /\ generated = NotGenerated
    /\ validated = NotValidated
    /\ alive = TRUE

SystemPaths == {PathA, PathB}

\* prompt, err := system.Build(templatePath, configPath)
CallBuild ==
    /\ alive
    /\ \E templatePath \in SystemPaths, executes \in BOOLEAN :
       \E r \in {SystemBuild(registry, store, templatePath, executes)} :
           /\ outcome' = [r.outcome EXCEPT !.path = templatePath]
           /\ calls' = r.calls
           /\ store' = r.store
           /\ alive' = (r.outcome.st \in {"ok", "error"})
    /\ UNCHANGED <<registry, template, loaded, generated, validated, mergeVars, extractVars, cli>>

\* err := system.GenerateOrFillConfig(templatePath, configPath)
CallGenerateOrFillConfig ==
    /\ alive
    /\ \E templatePath \in SystemPaths :
       \E r \in {GenerateOrFillConfig(registry, store, templatePath)} :
           /\ outcome' = [r.outcome EXCEPT !.path = templatePath]
           /\ calls' = r.calls
           /\ store' = r.store
           /\ alive' = (r.outcome.st \in {"ok", "error"})
    /\ UNCHANGED <<registry, template, loaded, generated, validated, mergeVars, extractVars, cli>>

NextSystem == CallBuild \/ CallGenerateOrFillConfig

----------------------------------------------------------------------------
(* The CLI's generate command (generatePrompt): Build; on an error         *)
(* GenerateOrFillConfig and Build again; then the prompt is written to the *)
(* output file.  One invocation is one run of the process; cli.attempts    *)
(* logs the PromptSystem calls it made and how each ended.                 *)

NoOutput == [state |-> "none", text |-> ""]
IdleCliValue ==
    [pc |-> "idle", registrySet |-> FALSE, templatePath |-> NoName,
     attempts |-> << >>, prompt |-> "", output |-> NoOutput]

\* the command was invoked with --template templatePath; the package's
\* registry variable is set or nil
InitCli ==
    \E registrySet \in BOOLEAN, templatePath \in SystemPaths :
        cli = [IdleCliValue EXCEPT !.pc = "start", !.registrySet = registrySet,
                                   !.templatePath = templatePath]

Attempt(op, st) == [op |-> op, st |-> st]

\* where generatePrompt goes after the first Build returned
afterBuild(st) ==
    CASE st = "ok" -> "write"
      [] st = "error" -> "fill"
      [] OTHER -> "died"

\* a command that builds again whatever the fill returned
afterFill_retriesAnyway(st) ==
    CASE st \in {"ok", "error"} -> "rebuild"
      [] OTHER -> "died"

\* where generatePrompt goes after GenerateOrFillConfig returned
afterFill(st) ==
    CASE st = "ok" -> "rebuild"
      [] st = "error" -> "failed"
      [] OTHER -> "died"

\* where generatePrompt goes after the second Build returned
afterRebuild(st) ==
    CASE st = "ok" -> "write"
      [] st = "error" -> "failed"
      [] OTHER -> "died"

\* if registry == nil { return ... }; NewPromptSystem(registry)
CliStart ==
    /\ cli.pc = "start"
    /\ cli' = [cli EXCEPT !.pc = IF cli.registrySet THEN "build" ELSE "failed"]
    /\ UNCHANGED <<store, calls, outcome, templateVars, mergeVars, extractVars>>

\* prompt, err := system.Build(templatePath, configPath)
CliBuild ==
    /\ cli.pc = "build"
    /\ \E executes \in BOOLEAN :
       \E r \in {SystemBuild(registry, store, cli.templatePath, executes)} :
           /\ outcome' = [r.outcome EXCEPT !.path = cli.templatePath]
           /\ calls' = r.calls
           /\ store' = r.store
           /\ alive' = (r.outcome.st \in {"ok", "error"})
           /\ cli' = [cli EXCEPT !.pc = afterBuild(r.outcome.st),
                                 !.attempts = Append(@, Attempt("Build", r.outcome.st)),
                                 !.prompt = r.outcome.out]
    /\ UNCHANGED <<registry, template, loaded, generated, validated, mergeVars, extractVars>>

\* if err := system.GenerateOrFillConfig(templatePath, configPath); err != nil
CliFill ==
    /\ cli.pc = "fill"
    /\ \E r \in {GenerateOrFillConfig(registry, store, cli.templatePath)} :
           /\ outcome' = [r.outcome EXCEPT !.path = cli.templatePath]
           /\ calls' = r.calls
           /\ store' = r.store
           /\ alive' = (r.outcome.st \in {"ok", "error"})
           /\ cli' = [cli EXCEPT !.pc = afterFill(r.outcome.st),
                                 !.attempts = Append(@, Attempt("GenerateOrFillConfig",
                                                                r.outcome.st))]
    /\ UNCHANGED <<registry, template, loaded, generated, validated, mergeVars, extractVars>>

\* prompt, err = system.Build(templatePath, configPath)
CliRebuild ==
    /\ cli.pc = "rebuild"
    /\ \E executes \in BOOLEAN :
       \E r \in {SystemBuild(registry, store, cli.templatePath, executes)} :
           /\ outcome' = [r.outcome EXCEPT !.path = cli.templatePath]
           /\ calls' = r.calls
           /\ store' = r.store
           /\ alive' = (r.outcome.st \in {"ok", "error"})
           /\ cli' = [cli EXCEPT !.pc = afterRebuild(r.outcome.st),
                                 !.attempts = Append(@, Attempt("Build", r.outcome.st)),
                                 !.prompt = r.outcome.out]
    /\ UNCHANGED <<registry, template, loaded, generated, validated, mergeVars, extractVars>>

\* os.WriteFile(outputPath, []byte(prompt), 0644): the file is written, or
\* the write fails and leaves no file or a part of it
CliWrite ==
    /\ cli.pc = "write"
    /\ \/ cli' = [cli EXCEPT !.pc = "done",
                              !.output = [state |-> "written", text |-> cli.prompt]]
       \/ \E left \in {"none", "partial"} :
              cli' = [cli EXCEPT !.pc = "failed",
                                 !.output = [state |-> left, text |-> ""]]
    /\ UNCHANGED <<store, calls, outcome, templateVars, mergeVars, extractVars>>

NextCli == CliStart \/ CliBuild \/ CliFill \/ CliRebuild \/ CliWrite

----------------------------------------------------------------------------
(* Properties of the Set Merger.                                           *)

Returned == mpc = "ret" /\ ~result.err
BothKeys == (DOMAIN this.m) \cap (DOMAIN other.m)
BothMaps(k) == IsMap(this.m[k]) /\ IsMap(other.m[k])

\* C1: first shape wins. For every key present in both arguments whose two
\* values are not both nested maps, the result holds base's value and
\* incoming's value is dropped whole; merge({x: leaf}, {x: {y: leaf}}) is
\* {x: leaf} and merge({x: {y: leaf}}, {x: leaf}) is {x: {y: leaf}}.
C1_FirstShapeWins ==
    Returned =>
        /\ \A k \in BothKeys : ~BothMaps(k) => result.m[k] = this.m[k]
        /\ (this.m = [x |-> Leaf] /\ other.m = [x |-> MapVal([y |-> Leaf])])
               => result.m = [x |-> Leaf]
        /\ (this.m = [x |-> MapVal([y |-> Leaf])] /\ other.m = [x |-> Leaf])
               => result.m = [x |-> MapVal([y |-> Leaf])]

C1_Witness ==
    /\ Returned
    /\ this.m = [x |-> Leaf]
    /\ other.m = [x |-> MapVal([y |-> Leaf])]
    /\ result.m = [x |-> Leaf]

\* n is the merge of the nested maps a and b: it holds the keys of both, a
\* key of one map alone keeps that map's value, a key of both keeps a's value
\* unless both values are maps, which are merged in turn
RECURSIVE IsDeepMerge(_, _, _)
IsDeepMerge(n, a, b) ==
    /\ DOMAIN n = (DOMAIN a) \cup (DOMAIN b)
    /\ \A s \in (DOMAIN a) \ (DOMAIN b) : n[s] = a[s]
    /\ \A s \in (DOMAIN b) \ (DOMAIN a) : n[s] = b[s]
    /\ \A s \in (DOMAIN a) \cap (DOMAIN b) :
           IF IsMap(a[s]) /\ IsMap(b[s])
           THEN IsMap(n[s]) /\ IsDeepMerge(n[s].m, a[s].m, b[s].m)
           ELSE n[s] = a[s]

\* C2: for every key present in both arguments whose two values are both
\* nested maps, the result at that key is the merge of the two nested maps,
\* recursively at every depth.
C2_NestedMapsMerged ==
    Returned =>
        \A k \in BothKeys :
            BothMaps(k) =>
                /\ IsMap(result.m[k])
                /\ IsDeepMerge(result.m[k].m, this.m[k].m, other.m[k].m)

\* both arguments nest two maps deep under x, and the merge reaches the
\* second level: y is kept from base, and x below x holds both sub-keys
C2_Witness ==
    /\ Returned
    /\ this.m = [x |-> MapVal([x |-> MapVal([x |-> Leaf])])]
    /\ other.m = [x |-> MapVal([x |-> MapVal([y |-> LeafVal("v")])])]
    /\ result.m = [x |-> MapVal([x |-> MapVal([x |-> Leaf, y |-> LeafVal("v")])])]

\* C3: MergeAsSet returns an error and no map exactly when one of its
\* arguments is the nil map; two initialized maps, empty or not, give a map
\* and no error.
C3_ErrorIffNil ==
    mpc = "ret" =>
        /\ result.err <=> (this.nil \/ other.nil)
        /\ result.err <=> result.nil

C3_Witness ==
    /\ mpc = "ret"
    /\ ~this.nil /\ this.m # EmptyMap
    /\ other.nil
    /\ result.err /\ result.nil

\* the union of the entries of two maps with no key in common
EntryUnion(a, b) ==
    [k \in (DOMAIN a) \cup (DOMAIN b) |-> IF k \in DOMAIN a THEN a[k] ELSE b[k]]

\* C4: for two initialized maps with no key in common, merge(A, B) and
\* merge(B, A) both are the union of the entries of A and B.
C4_DisjointUnion ==
    (Returned /\ BothKeys = {}) =>
        /\ result.m = EntryUnion(this.m, other.m)
        /\ MergeAsSet(other, this).m = result.m
        /\ ~MergeAsSet(other, this).err

C4_Witness ==
    /\ Returned
    /\ DOMAIN this.m = {"x"}
    /\ DOMAIN other.m = {"y"}
    /\ IsMap(other.m["y"])
    /\ DOMAIN result.m = {"x", "y"}

\* C5: MergeAsSet leaves its arguments unchanged: every map object that
\* exists before the call, the arguments and the nested maps reachable from
\* them included, holds the same entries after it, and the returned map is
\* a new object.
C5_ArgumentsUnchanged ==
    [][CallMergeAsSet =>
          /\ \A a \in 1..Len(heap) : heap'[a] = heap[a]
          /\ DerefArg(heap', thisAddr) = this
          /\ DerefArg(heap', otherAddr) = other
          /\ resAddr' # 0 => resAddr' > Len(heap)]_vars

\* a call that both adds a key of `other` and merges a nested map of both
C5_Witness ==
    /\ Returned
    /\ resAddr > 0
    /\ \E k \in BothKeys : BothMaps(k) /\ result.m[k] # this.m[k]
    /\ \E k \in DOMAIN other.m : k \notin DOMAIN this.m
    /\ Deref(heap, thisAddr) = this.m
    /\ Deref(heap, resAddr) = result.m

\* C26: MergeAsSet is idempotent under repeated accumulation: for all
\* initialized maps A and B, merge(A, A) = A and
\* merge(merge(A, B), B) = merge(A, B).
C26_MergeIdempotent ==
    Returned =>
        /\ MergeAsSet(this, this) = [err |-> FALSE, nil |-> FALSE, m |-> this.m]
        /\ MergeAsSet(SomeMap(result.m), other) = result

\* a merge that took a key from incoming and merged nested maps, so that the
\* result is neither argument
C26_Witness ==
    /\ Returned
    /\ result.m # this.m /\ result.m # other.m
    /\ \E k \in BothKeys : BothMaps(k) /\ result.m[k] # this.m[k]
    /\ MergeAsSet(SomeMap(result.m), other).m = result.m

\* r holds every key path of a with a's shape: a leaf of a is in r with the
\* same value, a mapping of a is a mapping in r that holds its paths in turn
RECURSIVE HoldsShapeOf(_, _)
HoldsShapeOf(r, a) ==
    \A k \in DOMAIN a :
        /\ k \in DOMAIN r
        /\ IF IsMap(a[k]) THEN IsMap(r[k]) /\ HoldsShapeOf(r[k].m, a[k].m)
           ELSE r[k] = a[k]

\* C27: MergeAsSet never loses or reshapes what base holds: the top-level
\* keys of merge(base, incoming) are exactly the union of the two key sets,
\* and every key path of base is in the result with the same shape (a leaf
\* stays a leaf with base's value, a mapping stays a mapping).
C27_BasePreserved ==
    Returned =>
        /\ DOMAIN result.m = (DOMAIN this.m) \cup (DOMAIN other.m)
        /\ HoldsShapeOf(result.m, this.m)

\* base and incoming disagree below a common key (a leaf of base against
\* another value of incoming, inside nested maps), and base's leaf is kept
C27_Witness ==
    /\ Returned
    /\ \E k \in BothKeys :
           /\ BothMaps(k)
           /\ \E j \in (DOMAIN this.m[k].m) \cap (DOMAIN other.m[k].m) :
                  /\ ~IsMap(this.m[k].m[j])
                  /\ other.m[k].m[j] # this.m[k].m[j]
                  /\ result.m[k].m[j] = this.m[k].m[j]

----------------------------------------------------------------------------
(* Properties of the variable-path extractor.                              *)

\* the chain of nested maps that a path stands for: a.b.c is {a: {b: {c: leaf}}}
RECURSIVE Chain(_)
Chain(path) ==
    IF Len(path) = 1 THEN (path[1] :> Leaf)
    ELSE (path[1] :> MapVal(Chain(Tail(path))))

\* the pipe holds exactly one argument, a, in one command
HoldsOnly(pipe, a) == ~pipe.nil /\ pipe.cmds = << <<a>> >>

\* C6: a pipe holding one field reference with path k1...kn (n >= 1) yields
\* a chain of n-1 nested mappings with the leaf marker at kn (a.b.c yields
\* {a: {b: {c: leaf}}}); a pipe holding only the context reference yields {}.
C6_PathExtraction ==
    xpc = "ret" =>
        /\ \A p \in FieldPaths : HoldsOnly(xpipe, FieldNode(p)) => xfrag = Chain(p)
        /\ HoldsOnly(xpipe, FieldNode(<<"a", "b", "a">>))
               => xfrag = [a |-> MapVal([b |-> MapVal([a |-> Leaf])])]
        /\ HoldsOnly(xpipe, DotNode) => xfrag = EmptyMap

C6_Witness ==
    /\ xpc = "ret"
    /\ HoldsOnly(xpipe, FieldNode(<<"a", "b", "a">>))
    /\ xfrag = [a |-> MapVal([b |-> MapVal([a |-> Leaf])])]

\* the arguments of a pipe, in pipe order
RECURSIVE ArgsOf(_)
ArgsOf(cmds) == IF cmds = << >> THEN << >> ELSE Head(cmds) \o ArgsOf(Tail(cmds))

\* the left fold of the Set Merger over the fragments of the single arguments
RECURSIVE MergedFragments(_, _)
MergedFragments(data, args) ==
    IF args = << >> THEN data
    ELSE MergedFragments(mergeInto(data, ExtractVarsFromPipe(Pipe1(<<Head(args)>>))),
                         Tail(args))

\* C24: for a pipe with several arguments, the result of ExtractVarsFromPipe
\* is the left fold of the Set Merger over the single-argument fragments in
\* pipe order (first shape wins between arguments): a then a.b gives
\* {a: leaf}, a.b then a gives {a: {b: leaf}}.
C24_ArgumentsMerged ==
    (xpc = "ret" /\ ~xpipe.nil)
        => /\ xfrag = MergedFragments(EmptyMap, ArgsOf(xpipe.cmds))
           /\ xpipe = Pipe1(<<F(<<"a">>), F(<<"a", "b">>)>>) => xfrag = [a |-> Leaf]
           /\ xpipe = Pipe1(<<F(<<"a", "b">>), F(<<"a">>)>>)
                  => xfrag = [a |-> MapVal([b |-> Leaf])]

\* the pipe `.a .a.b` was extracted: the later, longer path replaced the leaf
C24_Witness ==
    /\ xpc = "ret"
    /\ xpipe = Pipe1(<<F(<<"a">>), F(<<"a", "b">>)>>)
    /\ MergedFragments(EmptyMap, ArgsOf(xpipe.cmds)) = [a |-> Leaf]
    /\ xfrag = [a |-> MapVal([b |-> Leaf])]

----------------------------------------------------------------------------
(* Properties of the Schema Walker.                                        *)

\* the nodes of the root template's tree
RootNodes == registry[PathA].root.nodes
\* the root template holds exactly one node, of this type
RootIsOne(type) ==
    /\ registry[PathA].ok
    /\ Len(RootNodes) = 1
    /\ RootNodes[1].type = type
\* the pipe holds exactly one field reference, of one key
SingleKey(pipe) ==
    \E k \in {"a", "b", "c"} : HoldsOnly(pipe, F(<<k>>))
\* every node of the list is an action on one single-key field
SingleKeyActions(list) ==
    \A i \in 1..Len(list.nodes) :
        list.nodes[i].type = "Action" /\ SingleKey(list.nodes[i].pipe)
KeysOf(list) == {list.nodes[i].pipe.cmds[1][1].ident[1] : i \in 1..Len(list.nodes)}

\* C7: a With on a single-key path t whose body references fields f1..fm
\* yields a schema in which t is a nested mapping holding f1..fm (for any
\* body: holding the walk of the body), and nothing of the body is a
\* top-level key: with .c [.a .b] yields {c: {a: leaf, b: leaf}}.
C7_RebindReparents ==
    (generated.called /\ RootIsOne("With") /\ SingleKey(RootNodes[1].pipe)
         /\ RootNodes[1].elseList = NilList)
        => LET n == RootNodes[1]
               t == n.pipe.cmds[1][1].ident[1]
               body == n.list[1]
           IN  /\ generated.st = "ok"
               /\ ~generated.cfg.nil
               /\ DOMAIN generated.cfg.m = {t}
               /\ generated.cfg.m[t] = MapVal(walk(body, << >>, 0).data)
               /\ SingleKeyActions(body)
                      => generated.cfg.m[t] = MapVal([f \in KeysOf(body) |-> Leaf])

C7_Witness ==
    /\ generated.called
    /\ RootNodes = <<WithNode(Pipe1(<<F(<<"c">>)>>),
                              ListNode(<<Field(<<"a">>), Field(<<"b">>)>>), NilList)>>
    /\ generated.cfg = SomeMap([c |-> MapVal([a |-> Leaf, b |-> Leaf])])

\* the walk of an optional list, {} when it is absent
WalkOf(branch) == IF branch = NilList THEN EmptyMap ELSE walk(branch[1], template.set, 0).data

\* C8: a Range yields the merge of the source pipe's fragment, the walk of
\* the loop body (its fields become further top-level keys) and the walk of
\* the else-branch if present.
C8_LoopMergesBody ==
    (generated.called /\ generated.st = "ok" /\ RootIsOne("Range"))
        => LET n == RootNodes[1]
           IN  generated.cfg.m =
                   mergeInto(mergeInto(ExtractVarsFromPipe(n.pipe), WalkOf(n.list)),
                             WalkOf(n.elseList))

\* range .c [.a] yields {c: leaf}: the body's field a is not in the schema
C8_Witness ==
    /\ generated.called
    /\ RootNodes = <<RangeNode(Pipe1(<<F(<<"c">>)>>), ListNode(<<Field(<<"a">>)>>), NilList)>>
    /\ generated.cfg = SomeMap([c |-> Leaf])

\* the chain of nested mappings along path, holding inner at its end
RECURSIVE ChainHolding(_, _)
ChainHolding(path, inner) ==
    IF Len(path) = 1 THEN (path[1] :> MapVal(inner))
    ELSE (path[1] :> MapVal(ChainHolding(Tail(path), inner)))

\* the root is one With, without else-branch, on one field path of
\* several segments, and its body refers to some field
DeepWith ==
    /\ RootIsOne("With")
    /\ RootNodes[1].elseList = NilList
    /\ \E p \in FieldPaths : Len(p) > 1 /\ HoldsOnly(RootNodes[1].pipe, F(p))
    /\ walk(RootNodes[1].list[1], << >>, 0).data # EmptyMap

\* C25: for a With whose pipe is a field path p1...pn of several segments,
\* the body's fragment is attached as the nested value at pn under
\* p1...p(n-1), replacing the leaf the extraction of the pipe placed
\* there: with .a.b [.c] yields {a: {b: {c: leaf}}}.
C25_DeepRebindReparents ==
    (generated.called /\ DeepWith)
        => /\ generated.st = "ok"
           /\ generated.cfg.m
                = ChainHolding(RootNodes[1].pipe.cmds[1][1].ident,
                               walk(RootNodes[1].list[1], << >>, 0).data)

\* GenerateConfig on `[[with .a.b]][[.a]][[end]]` returned {a: {a: "", b: ""}}:
\* the body's field sits beside b under a, and b is still a leaf
C25_Witness ==
    /\ generated.called /\ generated.st = "ok"
    /\ DeepWith
    /\ RootNodes[1].pipe = Pipe1(<<F(<<"a", "b">>)>>)
    /\ RootNodes[1].list[1] = ListNode(<<ActionNode(Pipe1(<<F(<<"a">>)>>))>>)
    /\ generated.cfg = SomeMap([a |-> MapVal([a |-> Leaf, b |-> Leaf])])

----------------------------------------------------------------------------
(* Properties of the validator.                                            *)

\* the schema GenerateConfig infers for the template
RequiredSchema == GenerateConfig(template, registry)

\* C14: Parse(cfg) reports as missing exactly the top-level keys of the
\* required schema that cfg lacks, and returns no error iff there is none;
\* what is stored under a present key is never looked at: required
\* {a: leaf} against {} reports a, and against {a: "v"} nothing, as does
\* required {a: {b: leaf}} against {a: "v"}.
C14_ShallowValidation ==
    (validated.called /\ RequiredSchema.st = "ok")
        => LET required == RequiredSchema.cfg.m
               supplied == validated.cfg.m
           IN  /\ validated.missing = DOMAIN required \ DOMAIN supplied
               /\ validated.err = NoError <=> validated.missing = {}
               /\ (required = [a |-> Leaf] /\ supplied = EmptyMap)
                      => validated.missing = {"a"}
               /\ (required = [a |-> Leaf] /\ supplied = [a |-> LeafVal("v")])
                      => validated.err = NoError
               /\ (required = [a |-> MapVal([b |-> Leaf])] /\ supplied = [a |-> LeafVal("v")])
                      => validated.err = NoError

\* the schema asks for the object {a: {b: leaf}}, the configuration holds a
\* scalar at a, and Parse returned nil
C14_Witness ==
    /\ validated.called
    /\ RootNodes = <<Field(<<"a", "b">>)>>
    /\ RequiredSchema.cfg = SomeMap([a |-> MapVal([b |-> Leaf])])
    /\ validated.cfg = SomeMap([a |-> LeafVal("v")])
    /\ validated.st = "ok" /\ validated.err = NoError /\ validated.missing = {}

----------------------------------------------------------------------------
(* Properties of the Dependency Resolver.                                  *)

\* C9: the schema of a root holding one Include whose name resolves in the
\* template set is merge(walk(root of the included template), fragment of
\* the Include's argument pipe).
C9_IncludeIsWalkOfRoot ==
    (generated.called /\ generated.st = "ok" /\ RootIsOne("Template")
         /\ RootNodes[1].name \in DOMAIN template.set)
        => LET n == RootNodes[1]
           IN  generated.cfg.m =
                   mergeInto(walk(template.set[n.name], template.set, 0).data,
                             IF n.pipe.nil THEN EmptyMap ELSE ExtractVarsFromPipe(n.pipe))

\* a includes b, b holds .a and then includes c, c holds .a.b: b's walk is
\* {a: leaf}, yet the schema of a is {a: {b: leaf}}
C9_Witness ==
    /\ generated.called
    /\ registry = Stored(PathA, Parsed(ListNode(<<Include(PathB)>>)))
                      @@ Stored(PathB, Parsed(ListNode(<<Field(<<"a">>), Include(PathC)>>)))
                      @@ Stored(PathC, Parsed(ListNode(<<Field(<<"a", "b">>)>>)))
    /\ walk(template.set[PathB], template.set, 0).data = [a |-> Leaf]
    /\ generated.cfg = SomeMap([a |-> MapVal([b |-> Leaf])])

\* C11: during one LoadDependencies call Find is invoked at most once for
\* each dependency path, however many includes or templates name it, and
\* never for the root template's own path.
C11_FindAtMostOnce ==
    loaded.called
        => LET finds == loaded.st.finds
           IN  /\ \A i, j \in 1..Len(finds) : finds[i] = finds[j] => i = j
               /\ \A i \in 1..Len(finds) : finds[i] # template.path

\* the root names b.tmpl twice (as "b.tmpl" and as "b") and is itself
\* included by b.tmpl: Find was asked for b.tmpl once and for nothing else
C11_Witness ==
    /\ loaded.called
    /\ registry[PathA] = Parsed(ListNode(<<Include(PathB), Include(TmplName("b", FALSE))>>))
    /\ PathB \in DOMAIN registry
    /\ registry[PathB] = Parsed(ListNode(<<Include(PathA)>>))
    /\ loaded.st.finds = <<PathB>>
    /\ loaded.st.err = NoError

\* the path the registry is asked for a name
PathOf(name) == IF HasTmplSuffix(name) THEN name ELSE AddTmplSuffix(name)
Last(q) == q[Len(q)]

\* C12: when Find fails for an included template, LoadDependencies returns
\* 'error finding template' naming it and stops there: the failed Find is
\* the last one, and the only templates added are those found before it.
C12_FindFailureStops ==
    loaded.called
        => LET finds == loaded.st.finds
               failed == {i \in 1..Len(finds) : finds[i] \notin DOMAIN registry}
           IN  /\ failed # {}
                      => /\ failed = {Len(finds)}
                         /\ loaded.st.err = "error finding template"
                         /\ loaded.st.errName = Last(finds)
                         /\ \A n \in DOMAIN template.set \ {template.path} :
                                \E i \in 1..(Len(finds) - 1) : finds[i] = PathOf(n)
               /\ loaded.st.err = "error finding template" => failed # {}

\* the root includes b.tmpl, which is not stored, and then c.tmpl, which is:
\* the call fails on b.tmpl, and c.tmpl is neither asked for nor added
C12_Witness ==
    /\ loaded.called
    /\ registry[PathA] = Parsed(ListNode(<<Include(PathB), Include(PathC)>>))
    /\ PathB \notin DOMAIN registry
    /\ PathC \in DOMAIN registry
    /\ loaded.st.err = "error finding template"
    /\ loaded.st.errName = PathB
    /\ loaded.st.finds = <<PathB>>
    /\ DOMAIN template.set = {PathA}

\* the paths of the templates xs include, directly or in up to n steps
RECURSIVE IncludedFrom(_, _, _)
IncludedFrom(reg, xs, n) ==
    IF n = 0 THEN xs
    ELSE IncludedFrom(reg,
             xs \cup UNION {
                 IF x \in DOMAIN reg /\ reg[x].ok
                 THEN LET deps == findTemplateDependencies(reg[x].root)
                      IN  {PathOf(deps[i]) : i \in 1..Len(deps)}
                 ELSE {} : x \in xs}, n - 1)
\* the root or a stored template it transitively includes has a syntax error
SyntaxErrorIncluded ==
    \E x \in IncludedFrom(registry, {PathA}, 3) : x \in DOMAIN registry /\ ~registry[x].ok

\* C13: a syntax error in the root or in a transitively included template
\* is fatal: LoadDependencies returns an error, and GenerateConfig returns
\* an error and no configuration; no error ever comes with a configuration.
C13_SyntaxErrorIsFatal ==
    /\ SyntaxErrorIncluded
           => /\ loaded.called => loaded.st.err # NoError
              /\ generated.called
                     => generated.st = "error" /\ generated.err # NoError /\ generated.cfg = NilMap
    /\ (generated.called /\ generated.err # NoError) => generated.cfg = NilMap

\* the root holds .a and includes b.tmpl, whose content does not parse
C13_Witness ==
    /\ registry[PathA] = Parsed(ListNode(<<Field(<<"a">>), Include(PathB)>>))
    /\ PathB \in DOMAIN registry
    /\ registry[PathB] = SyntaxError
    /\ loaded.called /\ loaded.st.err = "error parsing dependent template"
    /\ generated.called /\ generated.st = "error" /\ generated.cfg = NilMap

\* the names template x includes, as template.go:408-456 finds them
IncludesOf(reg, x) ==
    IF x \in DOMAIN reg /\ reg[x].ok
    THEN LET deps == findTemplateDependencies(reg[x].root)
         IN  {deps[i] : i \in 1..Len(deps)}
    ELSE {}
MutualInclusion == PathB \in IncludesOf(registry, PathA) /\ PathA \in IncludesOf(registry, PathB)
SelfInclusion == PathA \in IncludesOf(registry, PathA)

\* C10: for two templates that include each other, and for a template that
\* includes itself, LoadDependencies returns without error and the
\* GenerateConfig that follows finishes, with bounded recursion depth.
C10_CyclesTerminate ==
    ((MutualInclusion \/ SelfInclusion) /\ generated.called /\ generated.err = NoError)
        => generated.st = "ok"

\* a and b include each other: LoadDependencies returned nil, GenerateConfig
\* overflowed the stack
C10_Witness ==
    /\ MutualInclusion
    /\ loaded.called /\ loaded.st.err = NoError
    /\ generated.called /\ generated.st = "overflow"

\* the templates reachable from x along inclusions, in at most n steps
RECURSIVE ReachableFrom(_, _, _)
ReachableFrom(set, xs, n) ==
    IF n = 0 THEN xs
    ELSE ReachableFrom(set,
             xs \cup UNION {IncludesOf([y \in DOMAIN set |-> Parsed(set[y])], x) \cap DOMAIN set
                               : x \in xs}, n - 1)
\* the stack overflows only on an inclusion cycle of the template set
OverflowOnlyOnCycles ==
    generated.st = "overflow"
        => \E x \in ReachableFrom(template.set, {PathA}, 3) :
               x \in ReachableFrom(template.set,
                         IncludesOf([y \in DOMAIN template.set |-> Parsed(template.set[y])], x)
                             \cap DOMAIN template.set, 3)

\* the names of the Include nodes anywhere below a node
RECURSIVE IncludeNames(_)
IncludeNames(n) ==
    IF n.type = "Template" THEN {n.name}
    ELSE LET below == n.nodes \o n.list \o n.elseList
         IN  UNION {IncludeNames(below[i]) : i \in 1..Len(below)}

\* names, and the names that occur in the stored templates they name, and
\* so on for k rounds
RECURSIVE NamesIncluded(_, _, _)
NamesIncluded(reg, names, k) ==
    IF k = 0 THEN names
    ELSE NamesIncluded(reg,
             names \cup UNION {IF PathOf(x) \in DOMAIN reg /\ reg[PathOf(x)].ok
                               THEN IncludeNames(reg[PathOf(x)].root) ELSE {} : x \in names},
             k - 1)

\* C21: when LoadDependencies returns success, every Include name that
\* occurs anywhere in the root template or in a transitively included
\* template (in a list, in a branch of a conditional, of a loop or of a
\* rebind) has its path in the visited set and, unless it is the root's, has
\* been requested from the registry.
C21_EveryIncludeVisited ==
    (loaded.called /\ loaded.st.err = NoError)
        => \A name \in NamesIncluded(registry, IncludeNames(template.content.root), 3) :
               /\ PathOf(name) \in loaded.st.processed
               /\ PathOf(name) # template.path
                     => \E i \in 1..Len(loaded.st.finds) : loaded.st.finds[i] = PathOf(name)

\* the root includes b.tmpl in the body of a conditional; b.tmpl includes
\* c.tmpl in a loop body and in the loop's else-branch; the load succeeded
C21_Witness ==
    /\ loaded.called /\ loaded.st.err = NoError
    /\ registry[PathA]
         = Parsed(ListNode(<<IfNode(Pipe1(<<F(<<"c">>)>>), ListNode(<<Include(PathB)>>),
                                    <<ListNode(<<Include(PathC)>>)>>)>>))
    /\ PathB \in DOMAIN registry
    /\ registry[PathB].ok
    /\ registry[PathB].root.nodes[1].type = "Range"
    /\ loaded.st.finds = <<PathB, PathC>>
    /\ loaded.st.processed = {PathA, PathB, PathC}

\* the tree with every Include whose name is not in names replaced by an
\* action that holds the Include's pipe
RECURSIVE WithoutUnresolved(_, _)
WithoutUnresolved(n, names) ==
    IF n.type = "Template"
    THEN IF n.name \in names THEN n ELSE ActionNode(n.pipe)
    ELSE [n EXCEPT !.nodes = [i \in DOMAIN @ |-> WithoutUnresolved(@[i], names)],
                   !.list = [i \in DOMAIN @ |-> WithoutUnresolved(@[i], names)],
                   !.elseList = [i \in DOMAIN @ |-> WithoutUnresolved(@[i], names)]]

\* the root holds an Include whose name is not in the template set
UnresolvedInRoot ==
    /\ HasTree(template)
    /\ \E name \in IncludeNames(template.set[template.path]) : name \notin DOMAIN template.set

\* C22: an Include whose name does not resolve in the template set
\* contributes the fragment of its own argument pipe and nothing else, the
\* walk of the rest of the tree goes on, and no error is returned: the walk
\* ends as the walk of the tree in which every such Include is replaced by
\* an action holding its pipe, and GenerateConfig returns that fragment.
C22_UnresolvedIncludeSkipped ==
    (generated.called /\ generated.err = NoError)
        => LET set == template.set
               stripped == [x \in DOMAIN set |-> WithoutUnresolved(set[x], DOMAIN set)]
               w == walk(stripped[template.path], stripped, 0)
           IN  /\ generated.st = w.st
               /\ w.st = "ok" => generated.cfg = SomeMap(w.data)
               /\ (UnresolvedInRoot /\ IncludeNames(stripped[template.path]) = {})
                      => generated.st = "ok"

\* the root includes "b" and then "b.tmpl" with the pipe .b; b.tmpl holds .a
\* and was installed under "b" only: the second Include gave {b: leaf}
C22_Witness ==
    /\ generated.called /\ generated.st = "ok" /\ generated.err = NoError
    /\ template.content
         = Parsed(ListNode(<<Include(TmplName("b", FALSE)),
                             TemplateNode(PathB, Pipe1(<<F(<<"b">>)>>))>>))
    /\ PathB \in DOMAIN registry
    /\ registry[PathB] = Parsed(ListNode(<<Field(<<"a">>)>>))
    /\ PathB \notin DOMAIN template.set
    /\ UnresolvedInRoot
    /\ generated.cfg = SomeMap([a |-> Leaf, b |-> Leaf])

\* C29: when LoadDependencies returns success, every Include name that
\* occurs in the root template or in a transitively loaded template
\* resolves by lookup in the root template's set, also when two names
\* differ only by an omitted '.tmpl' suffix and when a dependency is first
\* reached through a nested template.
C29_IncludesResolve ==
    (loaded.called /\ loaded.st.err = NoError)
        => \A name \in NamesIncluded(registry, IncludeNames(template.content.root), 3) :
               name \in DOMAIN template.set

\* the root includes "b" and then "b.tmpl"; the load succeeded, asked for
\* b.tmpl once and installed it under "b" only
C29_Witness ==
    /\ loaded.called /\ loaded.st.err = NoError
    /\ template.content
         = Parsed(ListNode(<<Include(TmplName("b", FALSE)), Include(PathB)>>))
    /\ loaded.st.finds = <<PathB>>
    /\ TmplName("b", FALSE) \in DOMAIN template.set
    /\ PathB \notin DOMAIN template.set

\* C23: walk returns a schema fragment, without error and without panic,
\* for every parse tree over an acyclic template set, whatever pipes its
\* nodes carry, also for a loop whose pipe holds several field references
\* that share a prefix (a.b and a).
C23_WalkNeverAborts ==
    (generated.called /\ IncludeNames(template.content.root) = {})
        => generated.st = "ok" /\ generated.err = NoError /\ ~generated.cfg.nil

\* GenerateConfig on `[[range .a.b .a]][[.a]][[end]]`: the walk panicked
C23_Witness ==
    /\ generated.called
    /\ template.content
         = Parsed(ListNode(<<RangeNode(Pipe1(<<F(<<"a", "b">>), F(<<"a">>)>>),
                                       ListNode(<<ActionNode(Pipe1(<<F(<<"a">>)>>))>>),
                                       NilList)>>))
    /\ IncludeNames(template.content.root) = {}
    /\ generated.st = "panic"
    /\ ~alive

----------------------------------------------------------------------------
(* Properties of templates created without a registry.                     *)

\* C19: LoadDependencies on a template that has no registry returns the
\* 'no registry set' error; it parses nothing, asks for no template and
\* leaves the template's set of loaded templates as it was.
C19_NoRegistryError ==
    [][(~template.hasReg /\ loaded' # loaded)
          => /\ loaded'.st.err = "no registry set"
             /\ loaded'.st.processed = {}
             /\ loaded'.st.finds = << >>
             /\ loaded'.st.set = template.set
             /\ template' = template
    ]_vars

\* LoadDependencies was called on a registry-less template that parses and
\* includes another template
C19_Witness ==
    /\ loaded.called
    /\ ~template.hasReg
    /\ template.content.ok
    /\ findTemplateDependencies(template.content.root) # << >>
    /\ loaded.st.err = "no registry set"

\* the template's content parses and holds no Include node
IncludeFree(t) == t.content.ok /\ findTemplateDependencies(t.content.root) = << >>

\* C20: GenerateConfig succeeds and returns the full nested schema for a
\* template that contains no Include node even when the template was
\* created with no registry.
C20_SchemaWithoutRegistry ==
    (generated.called /\ ~template.hasReg /\ IncludeFree(template))
        => /\ generated.st = "ok"
           /\ generated.cfg
                = SomeMap(walk(template.content.root,
                               Stored(template.path, template.content.root), 0).data)

\* GenerateConfig was called on a registry-less template with one nested
\* field and no Include node, and returned the dependency-loading error
C20_Witness ==
    /\ generated.called
    /\ ~template.hasReg
    /\ template.content = Parsed(ListNode(<<Field(<<"a", "b">>)>>))
    /\ generated.st = "error"
    /\ generated.err = "error loading dependencies"

----------------------------------------------------------------------------
(* Properties of the PromptSystem.                                         *)

\* the last call was a GenerateOrFillConfig that saved a configuration
Filled == outcome.op = "GenerateOrFillConfig" /\ outcome.st = "ok"

RECURSIVE KeepsExisting(_, _, _)
\* every existing key is in the saved map; its value is the existing one,
\* except that where the existing and the required value are both maps the
\* saved value is a map that keeps the existing one in the same way
KeepsExisting(existing, required, saved) ==
    \A k \in DOMAIN existing :
        /\ k \in DOMAIN saved
        /\ IF k \in DOMAIN required /\ IsMap(existing[k]) /\ IsMap(required[k])
           THEN /\ IsMap(saved[k])
                /\ KeepsExisting(existing[k].m, required[k].m, saved[k].m)
           ELSE saved[k] = existing[k]

\* C15 as stated: GenerateOrFillConfig copies every key of the existing
\* configuration into the saved configuration with its value untouched, at
\* every depth, also when the schema asks for another shape or for more
\* sub-fields under that key.
C15_ExistingUntouched ==
    Filled => \A k \in DOMAIN outcome.loadedCfg.m :
                  /\ k \in DOMAIN outcome.savedCfg.m
                  /\ outcome.savedCfg.m[k] = outcome.loadedCfg.m[k]

\* C15 amended: GenerateOrFillConfig keeps every key of the existing
\* configuration in the saved one; the value is untouched when it or the
\* schema's value for the key is not a map (the existing shape wins), and
\* where both are maps the saved value is their merge, which keeps the
\* existing entries in the same way and gains the sub-fields the schema asks
\* for.
C15_ExistingKept ==
    Filled => KeepsExisting(outcome.loadedCfg.m, outcome.genCfg.m, outcome.savedCfg.m)

\* a fill in which the schema asked for more sub-fields under an existing
\* key and for another shape under an existing key
C15_Witness ==
    /\ Filled
    /\ \E k \in DOMAIN outcome.loadedCfg.m \cap DOMAIN outcome.genCfg.m :
           /\ IsMap(outcome.loadedCfg.m[k]) /\ IsMap(outcome.genCfg.m[k])
           /\ outcome.savedCfg.m[k] # outcome.loadedCfg.m[k]
    /\ \E k \in DOMAIN outcome.loadedCfg.m \cap DOMAIN outcome.genCfg.m :
           IsMap(outcome.loadedCfg.m[k]) # IsMap(outcome.genCfg.m[k])

RECURSIVE AddsMissing(_, _, _)
\* every required key is in the saved map, with the schema's own value when
\* the existing map lacks it, and filled in the same way below it when the
\* existing and the required value are both maps
AddsMissing(existing, required, saved) ==
    \A k \in DOMAIN required :
        /\ k \in DOMAIN saved
        /\ k \notin DOMAIN existing => saved[k] = required[k]
        /\ (k \in DOMAIN existing /\ IsMap(existing[k]) /\ IsMap(required[k]))
               => /\ IsMap(saved[k])
                  /\ AddsMissing(existing[k].m, required[k].m, saved[k].m)

\* C16 as stated: GenerateOrFillConfig adds every top-level required key
\* absent from the existing configuration with an empty scalar placeholder,
\* at the top level only, also when the schema requires a nested object.
C16_ScalarPlaceholders ==
    Filled => \A k \in DOMAIN outcome.genCfg.m \ DOMAIN outcome.loadedCfg.m :
                  /\ k \in DOMAIN outcome.savedCfg.m
                  /\ outcome.savedCfg.m[k] = Leaf

\* C16 amended: GenerateOrFillConfig adds every required key absent from the
\* existing configuration with the schema's own value for it (the empty
\* string for a leaf, the nested object of empty strings for an object), and
\* fills in the same way below every key under which both hold an object;
\* the saved keys are the existing and the required ones.
C16_SchemaPlaceholders ==
    Filled => /\ DOMAIN outcome.savedCfg.m
                    = DOMAIN outcome.loadedCfg.m \cup DOMAIN outcome.genCfg.m
              /\ AddsMissing(outcome.loadedCfg.m, outcome.genCfg.m, outcome.savedCfg.m)

\* a fill that added a nested object for an absent key
C16_Witness ==
    /\ Filled
    /\ \E k \in DOMAIN outcome.genCfg.m \ DOMAIN outcome.loadedCfg.m :
           /\ IsMap(outcome.genCfg.m[k])
           /\ outcome.savedCfg.m[k] = outcome.genCfg.m[k]

\* C28: fill then validate succeeds: the configuration GenerateOrFillConfig
\* saves holds every top-level key of the template's required schema, so
\* Template.Parse of the same template on the saved configuration reports
\* no missing field.
C28_FillThenValidate ==
    Filled =>
        /\ store.cfg = outcome.savedCfg
        /\ DOMAIN outcome.genCfg.m \subseteq DOMAIN store.cfg.m
        /\ Parse(Find(registry, outcome.path), registry, store.cfg).st = "ok"
        /\ Parse(Find(registry, outcome.path), registry, store.cfg).missing = {}

\* a fill of a configuration that lacked a required key and held another
C28_Witness ==
    /\ Filled
    /\ DOMAIN outcome.genCfg.m \ DOMAIN outcome.loadedCfg.m # {}
    /\ DOMAIN outcome.loadedCfg.m \ DOMAIN outcome.genCfg.m # {}
    /\ Parse(Find(registry, outcome.path), registry, outcome.loadedCfg).err = "Missing"
    /\ Parse(Find(registry, outcome.path), registry, store.cfg).st = "ok"

\* the last call was a Build
Built == outcome.op = "Build"

\* the schema of the template the last call was about
SchemaOfCall == GenerateConfig(Find(registry, outcome.path), registry)

\* C17: PromptSystem.Build runs find, load configuration, validate, render
\* in that order and stops at the first failure: a template that is not
\* found means no configuration is loaded; a configuration that cannot be
\* loaded or that lacks a required top-level field means nothing is
\* rendered; every call that returns a failure returns the empty string and
\* the error, and only a call that went through all four steps returns a
\* prompt.  (A call whose schema walk dies does so during validation.)
C17_BuildStopsAtFirstFailure ==
    Built =>
        /\ \E n \in 1..4 : calls = SubSeq(<<"Find", "LoadConfig", "Parse", "Build">>, 1, n)
        /\ outcome.path \notin DOMAIN registry
              => calls = <<"Find">> /\ outcome.st = "error"
        /\ (outcome.path \in DOMAIN registry /\ ~store.exists)
              => calls = <<"Find", "LoadConfig">> /\ outcome.st = "error"
        /\ (outcome.path \in DOMAIN registry /\ store.exists)
              => /\ Len(calls) >= 3
                 /\ (SchemaOfCall.st = "ok"
                        /\ DOMAIN SchemaOfCall.cfg.m \ DOMAIN store.cfg.m # {})
                       => /\ calls = <<"Find", "LoadConfig", "Parse">>
                          /\ outcome.st = "error"
                          /\ outcome.err = "Missing"
        /\ outcome.st = "error" => outcome.out = "" /\ outcome.err # NoError
        /\ outcome.st \notin {"ok", "error"} => calls = <<"Find", "LoadConfig", "Parse">>
        /\ outcome.st = "ok" => Len(calls) = 4 /\ outcome.err = NoError
        /\ outcome.out # "" => outcome.st = "ok"

\* a Build stopped by a missing required field, with the template found and
\* the configuration loaded
C17_Witness ==
    /\ Built
    /\ outcome.err = "Missing"
    /\ outcome.path \in DOMAIN registry
    /\ store.exists
    /\ calls = <<"Find", "LoadConfig", "Parse">>

\* the steps of a sequence of registry calls
StepsOf(q) == {q[i] : i \in 1..Len(q)}

\* what must have succeeded before GenerateOrFillConfig saves: the template
\* is found, its schema is generated, a configuration is stored and it is
\* not the null document (which the merge refuses)
FillPreconditions(reg, store_, path) ==
    /\ path \in DOMAIN reg
    /\ GenerateConfig(Find(reg, path), reg).st = "ok"
    /\ store_.exists
    /\ ~store_.cfg.nil

----------------------------------------------------------------------------
(* Properties of the CLI's generate command.                               *)

\* the PromptSystem operations the invocation called, in order
OpsOf(attempts) == [i \in 1..Len(attempts) |-> attempts[i].op]

\* C30: one invocation of the generate command attempts Build at most twice
\* and GenerateOrFillConfig at most once: a fill happens only after a failed
\* first Build, the second Build only after a successful fill, and the
\* output file is written only after some Build succeeded; if the fill or
\* the second Build fails, no output file is written.
C30_GenerateRetriesOnce ==
    LET a == cli.attempts
    IN  /\ \E n \in 0..3 : OpsOf(a) = SubSeq(<<"Build", "GenerateOrFillConfig", "Build">>, 1, n)
        /\ Len(a) >= 2 => a[1].st = "error"
        /\ Len(a) = 3 => a[2].st = "ok"
        /\ cli.output.state # "none"
              => /\ Len(a) \in {1, 3}
                 /\ a[Len(a)].op = "Build" /\ a[Len(a)].st = "ok"
        /\ (Len(a) >= 2 /\ a[Len(a)].st # "ok") => cli.output.state = "none"
        /\ cli.pc = "done" => cli.output = [state |-> "written", text |-> "prompt"]

\* an invocation whose first Build failed on a missing field, whose fill
\* succeeded and whose second Build succeeded, and that wrote the output
C30_Witness ==
    /\ cli.pc = "done"
    /\ cli.attempts = <<Attempt("Build", "error"), Attempt("GenerateOrFillConfig", "ok"),
                        Attempt("Build", "ok")>>
    /\ cli.output.state = "written"

----------------------------------------------------------------------------
(* Specifications: each runs one component on every input of its family.   *)
(* The variables of the other components stay idle.                        *)

IdleMerge ==
    /\ mpc = "idle"
    /\ this = NilMap
    /\ other = NilMap
    /\ result = NilMap
    /\ heap = << >>
    /\ thisAddr = 0
    /\ otherAddr = 0
    /\ resAddr = 0

IdleExtract ==
    /\ xpc = "idle"
    /\ xpipe = NilPipe
    /\ xfrag = EmptyMap

IdleTemplate ==
    /\ registry = << >>
    /\ template = NewTemplate(NoName, SyntaxError, FALSE)
    /\ loaded = NotLoaded
    /\ generated = NotGenerated
    /\ validated = NotValidated
    /\ alive = FALSE

IdleSystem ==
    /\ store = [exists |-> FALSE, writable |-> FALSE, cfg |-> NilMap]
    /\ calls = << >>
    /\ outcome = NoOutcome
    /\ cli = IdleCliValue

NextMerge == CallMergeAsSet /\ UNCHANGED <<extractVars, templateVars, systemVars>>
StartMerge == InitMerge /\ IdleExtract /\ IdleTemplate /\ IdleSystem
SpecMerge == StartMerge /\ [][NextMerge]_vars

NextExtract == CallExtractVarsFromPipe /\ UNCHANGED <<mergeVars, templateVars, systemVars>>
StartExtract == InitExtract /\ IdleMerge /\ IdleTemplate /\ IdleSystem
SpecExtract == StartExtract /\ [][NextExtract]_vars

StartWalk == InitWalk /\ IdleMerge /\ IdleExtract /\ IdleSystem
SpecWalk == StartWalk /\ [][NextTemplate]_vars

StartValidate == InitValidate /\ IdleMerge /\ IdleExtract /\ IdleSystem
SpecValidate == StartValidate /\ [][CallParse]_vars

IdleCli == cli = IdleCliValue
StartSystem == InitSystem /\ IdleCli /\ IdleMerge /\ IdleExtract
SpecSystem == StartSystem /\ [][NextSystem]_vars

StartCli == InitSystem /\ InitCli /\ IdleMerge /\ IdleExtract
SpecCli == StartCli /\ [][NextCli]_vars

StartNoRegistry == InitNoRegistry /\ IdleMerge /\ IdleExtract /\ IdleSystem
SpecNoRegistry == StartNoRegistry /\ [][NextTemplate]_vars

StartLoad == InitLoad /\ IdleMerge /\ IdleExtract /\ IdleSystem
SpecLoad == StartLoad /\ [][NextTemplate]_vars

=============================================================================
